---------------------------- MODULE Spec2Model ----------------------------
(***************************************************************************)
(* Device-integration layer of the Intranet Desktop application: the USB,  *)
(* serial, camera, printer and scanner services and the image-to-document  *)
(* assembly, modelled as state machines.  Every service owns its registry  *)
(* and its open resources; one specification per service drives that       *)
(* service's operations and leaves the other services in their initial     *)
(* state.                                                                  *)
(***************************************************************************)
EXTENDS Integers, Sequences, FiniteSets, TLC

(***************************************************************************)
(* Bounds of the model.                                                    *)
(***************************************************************************)
MaxListeners == 1
MaxConns == 2
MaxScans == 1
MaxImages == 2
MaxRefreshes == 2
MaxSubscribers == 3
MaxCallbacks == 1
MaxTimers == 2

VARIABLES
  tick,                 \* flips on every operation invocation
  lastCall,             \* the operation invoked last and its argument
  \* ---- USBService
  devices,              \* registry: device id -> status ("none" = no record)
  usbIsInitialized,
  monitoringInterval,   \* TRUE when the field holds a timer handle
  usbLiveTimers,        \* interval timers alive in the event loop
  usbListeners,         \* eventListeners: event name -> number of callbacks
  usbFound,             \* foundDevices of the last discovery pass on this registry
  usbConnEmits,         \* 'device-connected' emits of the last operation, per id
  usbDiscEmits,         \* 'device-disconnected' emits of the last operation, per id
  usbInitPending,       \* initialize() calls suspended at `await this.scanUSBDevices()`
  usbEnumFailed,        \* both enumeration sources threw in the last step's pass
  usbResult             \* what the last operation returned

usbVars == <<devices, usbIsInitialized, usbInitPending, monitoringInterval, usbLiveTimers,
             usbListeners, usbFound, usbConnEmits, usbDiscEmits,
             usbEnumFailed, usbResult>>

callVars == <<tick, lastCall>>

NoCall == [op |-> "none", arg |-> "none"]

Call(op, arg) ==
  /\ tick' = ~tick
  /\ lastCall' = [op |-> op, arg |-> arg]

(***************************************************************************)
(* USBService                                                              *)
(***************************************************************************)
WmiIds == {"A", "C"}               \* DeviceID strings reported by WMI
LibIds == {"1:2"}                  \* vendor:product ids built from the usb library
UsbIds == WmiIds \cup LibIds
UsbEvents == {"device-connected", "device-disconnected"}

\* the Status values a device is listed with: 'OK' or, for device "C", another
WmiStatuses(i) == IF i = "C" THEN {"absent", "OK", "Degraded"} ELSE {"absent", "OK"}

\* What the PowerShell/WMI query can give: it throws, or it lists devices,
\* each with Status 'OK' or another status.
WmiOutcomes ==
  {[ok |-> FALSE, st |-> [i \in WmiIds |-> "absent"]]}
    \cup [ok : {TRUE},
          st : {f \in [WmiIds -> {"absent", "OK", "Degraded"}] :
                  \A i \in WmiIds : f[i] \in WmiStatuses(i)}]
\* What the usb library can give: require fails, or a device list.
LibOutcomes == {[ok |-> FALSE, ids |-> {}]} \cup [ok : {TRUE}, ids : SUBSET LibIds]

\* the (vendorId, productId) of the record stored under a key: parseWMIDevice
\* takes it from VID_xxxx&PID_xxxx in the DeviceID ('unknown' without a match),
\* scanWithUSBLibrary from the descriptor whose decimal idVendor:idProduct is
\* the key. Key "A" is USB\VID_0001&PID_0002\..., key "1:2" is the same device.
UsbIdentity(id) ==
  IF id = "A" THEN <<"0001", "0002">>
  ELSE IF id = "C" THEN <<"00AB", "0004">>
  ELSE IF id = "1:2" THEN <<"0001", "0002">>
  ELSE <<"unknown", "unknown">>

NoUsbEmits == [i \in UsbIds |-> 0]
EmptyUsbRegistry == [i \in UsbIds |-> "none"]
NoListeners == [e \in UsbEvents |-> 0]

\* parseWMIDevice: the status of the record built from a WMI entry
parseWMIDevice(st) == IF st = "OK" THEN "connected" ELSE "error"

\* the condition under which scanWithWMI emits 'device-connected' for id:
\* it is evaluated on the registry after the record was stored
IsNewDevice(before, afterSet, id) == afterSet[id] = "none"

\* scanWithWMI(foundDevices)
scanWithWMI(devs, wmi) ==
  IF ~wmi.ok
  THEN [devices |-> devs, found |-> {}, conn |-> NoUsbEmits]
  ELSE LET ids == {i \in WmiIds : wmi.st[i] # "absent"}
           stored == [i \in UsbIds |-> IF i \in ids THEN parseWMIDevice(wmi.st[i])
                                                    ELSE devs[i]]
       IN [devices |-> stored,
           found   |-> ids,
           conn    |-> [i \in UsbIds |->
                          IF i \in ids /\ IsNewDevice(devs, stored, i) THEN 1 ELSE 0]]

\* scanWithUSBLibrary(foundDevices)
scanWithUSBLibrary(devs, found, lib) ==
  IF ~lib.ok
  THEN [devices |-> devs, found |-> found]
  ELSE LET add == lib.ids \ found
       IN [devices |-> [i \in UsbIds |-> IF i \in add THEN "connected" ELSE devs[i]],
           found   |-> found \cup add]

\* scanUSBDevices(): one discovery pass
scanUSBDevices(devs, wmi, lib) ==
  LET current == {i \in UsbIds : devs[i] # "none"}      \* keys of currentDevices
      w == scanWithWMI(devs, wmi)
      l == scanWithUSBLibrary(w.devices, w.found, lib)
      gone == current \ l.found
  IN [devices |-> [i \in UsbIds |-> IF i \in gone THEN "disconnected" ELSE l.devices[i]],
      found   |-> l.found,
      conn    |-> w.conn,
      disc    |-> [i \in UsbIds |-> IF i \in gone THEN 1 ELSE 0]]

Connected(devs) == {i \in UsbIds : devs[i] = "connected"}

UsbInit ==
  /\ devices = EmptyUsbRegistry
  /\ usbIsInitialized = FALSE
  /\ usbInitPending = 0
  /\ monitoringInterval = FALSE
  /\ usbLiveTimers = 0
  /\ usbListeners = NoListeners
  /\ usbFound = {}
  /\ usbEnumFailed = FALSE
  /\ usbConnEmits = NoUsbEmits
  /\ usbDiscEmits = NoUsbEmits
  /\ usbResult = [status |-> "none", ids |-> {}]

\* the effect of a discovery pass on the registry and on the emitted events
UsbPass(wmi, lib) ==
  LET p == scanUSBDevices(devices, wmi, lib)
  IN /\ devices' = p.devices
     /\ usbFound' = p.found
     /\ usbConnEmits' = p.conn
     /\ usbDiscEmits' = p.disc
     /\ usbEnumFailed' = (~wmi.ok /\ ~lib.ok)

UsbNoPass ==
  /\ usbEnumFailed' = FALSE
  /\ usbConnEmits' = NoUsbEmits
  /\ usbDiscEmits' = NoUsbEmits
  /\ UNCHANGED <<devices, usbFound>>

\* variant of UsbInitialize without the isInitialized test
UsbInitializeAgain ==
  /\ usbLiveTimers + usbInitPending < MaxTimers
  /\ Call("initialize", "usb")
  /\ \E wmi \in WmiOutcomes, lib \in LibOutcomes : UsbPass(wmi, lib)
  /\ usbInitPending' = usbInitPending + 1
  /\ usbResult' = [status |-> "pending", ids |-> {}]
  /\ UNCHANGED <<usbIsInitialized, monitoringInterval, usbLiveTimers, usbListeners>>

\* USBService.initialize() up to the point where it is suspended at
\* `await this.scanUSBDevices()`; the pass itself has run by then
UsbInitialize ==
  /\ Call("initialize", "usb")
  /\ IF usbIsInitialized
     THEN /\ UsbNoPass
          /\ usbResult' = [status |-> "ok", ids |-> {}]
          /\ UNCHANGED usbInitPending
     ELSE /\ usbLiveTimers + usbInitPending < MaxTimers
          /\ \E wmi \in WmiOutcomes, lib \in LibOutcomes : UsbPass(wmi, lib)
          /\ usbInitPending' = usbInitPending + 1
          /\ usbResult' = [status |-> "pending", ids |-> {}]
  /\ UNCHANGED <<usbIsInitialized, monitoringInterval, usbLiveTimers, usbListeners>>

\* the rest of initialize(): startMonitoring() and isInitialized = true
UsbInitializeResume ==
  /\ usbInitPending > 0
  /\ usbInitPending' = usbInitPending - 1
  /\ monitoringInterval' = TRUE          \* the handle of the newest interval
  /\ usbLiveTimers' = usbLiveTimers + 1
  /\ usbIsInitialized' = TRUE
  /\ UsbNoPass
  /\ usbResult' = [status |-> "ok", ids |-> {}]
  /\ UNCHANGED <<devices, usbFound, usbListeners, callVars>>

\* USBService.cleanup()
UsbCleanup ==
  /\ Call("cleanup", "usb")
  /\ IF monitoringInterval
     THEN /\ usbLiveTimers' = usbLiveTimers - 1
          /\ monitoringInterval' = FALSE
     ELSE UNCHANGED <<usbLiveTimers, monitoringInterval>>
  /\ devices' = EmptyUsbRegistry
  /\ usbListeners' = NoListeners
  /\ usbIsInitialized' = FALSE
  /\ usbConnEmits' = NoUsbEmits
  /\ usbDiscEmits' = NoUsbEmits
  /\ usbResult' = [status |-> "ok", ids |-> {}]
  /\ usbFound' = {}
  /\ usbEnumFailed' = FALSE
  /\ UNCHANGED usbInitPending

\* USBService.getAvailableDevices() / getDevices()
UsbGetAvailableDevices ==
  /\ Call("getAvailableDevices", "usb")
  /\ \E wmi \in WmiOutcomes, lib \in LibOutcomes : UsbPass(wmi, lib)
  /\ usbResult' = [status |-> "ok", ids |-> Connected(devices')]
  /\ UNCHANGED <<usbIsInitialized, usbInitPending, monitoringInterval, usbLiveTimers, usbListeners>>

\* the setInterval callback of startMonitoring(); a timer cannot fire while an
\* initialize() is suspended at an await on a settled promise
UsbTimerTick ==
  /\ usbLiveTimers > 0
  /\ usbInitPending = 0
  /\ Call("timerTick", "usb")
  /\ \E wmi \in WmiOutcomes, lib \in LibOutcomes : UsbPass(wmi, lib)
  /\ usbResult' = [status |-> "none", ids |-> {}]
  /\ UNCHANGED <<usbIsInitialized, usbInitPending, monitoringInterval, usbLiveTimers, usbListeners>>

\* String.prototype.toLowerCase on the strings the filters compare
ToLower(s) ==
  IF s = "00AB" THEN "00ab"
  ELSE IF s = "USB Hub" THEN "usb hub"
  ELSE IF s = "Mouse" THEN "mouse"
  ELSE IF s = "HUB" THEN "hub"
  ELSE s

\* deviceClass of a record: bDeviceClass for a library record, absent for WMI
UsbDeviceClass(id) == IF id \in LibIds THEN "9" ELSE "undefined"

\* product of a record: the WMI Name, absent otherwise
UsbProduct(id) ==
  IF id = "A" THEN "USB Hub" ELSE IF id = "C" THEN "Mouse" ELSE "undefined"

\* String.prototype.includes on the lowered product names and class arguments
Includes(s, sub) ==
  \/ s = sub
  \/ s = "usb hub" /\ sub = "hub"

ClassArgs == {"HUB"}
VendorArgs == {"00ab"}
ProductArgs == {"0002"}

ByClass(ids, deviceClass) ==
  {i \in ids : \/ UsbDeviceClass(i) = deviceClass
               \/ /\ UsbProduct(i) # "undefined"
                  /\ Includes(ToLower(UsbProduct(i)), ToLower(deviceClass))}

ByVendor(ids, vendorId) ==
  {i \in ids : ToLower(UsbIdentity(i)[1]) = ToLower(vendorId)}

ByProduct(ids, productId) ==
  {i \in ids : ToLower(UsbIdentity(i)[2]) = ToLower(productId)}

\* USBService.getDevicesByClass(deviceClass)
UsbGetDevicesByClass(deviceClass) ==
  /\ Call("getDevicesByClass", deviceClass)
  /\ \E wmi \in WmiOutcomes, lib \in LibOutcomes : UsbPass(wmi, lib)
  /\ usbResult' = [status |-> "ok", ids |-> ByClass(Connected(devices'), deviceClass)]
  /\ UNCHANGED <<usbIsInitialized, usbInitPending, monitoringInterval, usbLiveTimers, usbListeners>>

\* USBService.getDevicesByVendor(vendorId)
UsbGetDevicesByVendor(vendorId) ==
  /\ Call("getDevicesByVendor", vendorId)
  /\ \E wmi \in WmiOutcomes, lib \in LibOutcomes : UsbPass(wmi, lib)
  /\ usbResult' = [status |-> "ok", ids |-> ByVendor(Connected(devices'), vendorId)]
  /\ UNCHANGED <<usbIsInitialized, usbInitPending, monitoringInterval, usbLiveTimers, usbListeners>>

\* USBService.getDevicesByProduct(productId)
UsbGetDevicesByProduct(productId) ==
  /\ Call("getDevicesByProduct", productId)
  /\ \E wmi \in WmiOutcomes, lib \in LibOutcomes : UsbPass(wmi, lib)
  /\ usbResult' = [status |-> "ok", ids |-> ByProduct(Connected(devices'), productId)]
  /\ UNCHANGED <<usbIsInitialized, usbInitPending, monitoringInterval, usbLiveTimers, usbListeners>>

\* USBService.isDeviceAvailable(deviceId) / testDevice(deviceId)
UsbIsDeviceAvailable(id) ==
  /\ Call("isDeviceAvailable", id)
  /\ UsbNoPass
  /\ usbResult' = [status |-> "ok",
                   ids |-> IF devices[id] = "connected" THEN {id} ELSE {}]
  /\ UNCHANGED <<usbIsInitialized, usbInitPending, monitoringInterval, usbLiveTimers, usbListeners>>

\* USBService.monitorDeviceChanges(callback): one listener on each event
UsbMonitorDeviceChanges ==
  /\ \A e \in UsbEvents : usbListeners[e] < MaxListeners
  /\ Call("monitorDeviceChanges", "usb")
  /\ UsbNoPass
  /\ usbListeners' = [e \in UsbEvents |-> usbListeners[e] + 1]
  /\ usbResult' = [status |-> "ok", ids |-> {}]
  /\ UNCHANGED <<usbIsInitialized, usbInitPending, monitoringInterval, usbLiveTimers>>

\* USBService.stopMonitoring()
UsbStopMonitoring ==
  /\ Call("stopMonitoring", "usb")
  /\ UsbNoPass
  /\ IF monitoringInterval
     THEN /\ usbLiveTimers' = usbLiveTimers - 1
          /\ monitoringInterval' = FALSE
     ELSE UNCHANGED <<usbLiveTimers, monitoringInterval>>
  /\ usbResult' = [status |-> "ok", ids |-> {}]
  /\ UNCHANGED <<usbIsInitialized, usbInitPending, usbListeners>>

UsbNext ==
  \/ UsbInitialize
  \/ UsbInitializeResume
  \/ UsbCleanup
  \/ UsbGetAvailableDevices
  \/ UsbTimerTick
  \/ \E id \in UsbIds : UsbIsDeviceAvailable(id)
  \/ UsbMonitorDeviceChanges
  \/ UsbStopMonitoring
  \/ \E deviceClass \in ClassArgs : UsbGetDevicesByClass(deviceClass)
  \/ \E vendorId \in VendorArgs : UsbGetDevicesByVendor(vendorId)
  \/ \E productId \in ProductArgs : UsbGetDevicesByProduct(productId)

(***************************************************************************)
(* SerialService                                                           *)
(***************************************************************************)
VARIABLES
  ports,                \* registry: port path -> status ("none" = no record)
  libDiscarded,         \* paths whose library record the last step built and dropped
  openConnections,      \* port path -> connection id (0 = no entry)
  serialConns,          \* the live SerialPort objects: id -> state, path, record
  serialScans,          \* discovery passes awaiting SerialPort.list(), per caller
  serialLib,            \* whether require('serialport') succeeds
  serialIsInitialized,
  serialEmits,          \* events emitted by the last step
  serialResult,         \* what the last finished operation returned
  serialCleaned,        \* cleanup() returned and no operation was invoked since
  dataCallbacks,        \* connection id -> 'data' listeners set up by onData
  pendingRead,          \* connection id -> the read() awaiting data on it
  readData              \* what the last read() that resolved returned

serialVars == <<ports, libDiscarded, openConnections, serialConns, serialScans, serialLib,
                serialIsInitialized, serialEmits, serialResult, serialCleaned,
                dataCallbacks, pendingRead, readData>>

serialIoVars == <<dataCallbacks, pendingRead, readData>>

Paths == {"COM1", "COM2"}
ConnIds == 1..MaxConns
ScanCallers == {"initialize", "getPorts"}

\* What an enumeration source can give: it fails, or it lists port paths.
PortListings == {[ok |-> FALSE, paths |-> {}]} \cup [ok : {TRUE}, paths : SUBSET Paths]

EmptyPortRegistry == [p \in Paths |-> "none"]
NoConnections == [p \in Paths |-> 0]
\* fresh: the record captured by openPort is still the one in the registry
UnusedConn == [state |-> "unused", path |-> "none", fresh |-> FALSE]
NoSerialResult == [op |-> "none", ok |-> FALSE, reason |-> "none"]
SerialOk(op) == [op |-> op, ok |-> TRUE, reason |-> "none"]
SerialFail(op, reason) == [op |-> op, ok |-> FALSE, reason |-> reason]

Chunks == {"x", "y"}
\* attached: dataHandler is a listener of the connection; chunkSeen: a chunk
\* arrived on the connection since the read began
NoRead == [state |-> "none", attached |-> FALSE, chunkSeen |-> FALSE]

SerialInit ==
  /\ ports = EmptyPortRegistry
  /\ libDiscarded = {}
  /\ openConnections = NoConnections
  /\ serialConns = [c \in ConnIds |-> UnusedConn]
  /\ serialScans = [k \in ScanCallers |-> 0]
  /\ serialLib \in BOOLEAN
  /\ serialIsInitialized = FALSE
  /\ serialEmits = {}
  /\ serialResult = NoSerialResult
  /\ serialCleaned = FALSE
  /\ dataCallbacks = [c \in ConnIds |-> 0]
  /\ pendingRead = [c \in ConnIds |-> NoRead]
  /\ readData = "none"

\* every record of the registry was replaced: captured records are detached
Detach(conns) == [c \in ConnIds |-> [conns[c] EXCEPT !.fresh = FALSE]]

\* scanWithPowerShell() after this.ports.clear()
scanWithPowerShell(ps) ==
  [p \in Paths |-> IF ps.ok /\ p \in ps.paths THEN "available" ELSE "none"]

\* the first test of the forEach body of scanWithSerialPortLibrary()
Registered(reg, p) == reg[p] # "none"

\* scanWithSerialPortLibrary(): adds the paths the registry does not hold
scanWithSerialPortLibrary(reg, lib) ==
  [p \in Paths |-> IF lib.ok /\ p \in lib.paths /\ ~Registered(reg, p)
                   THEN "available" ELSE reg[p]]

\* the paths scanWithSerialPortLibrary() lists and skips: the registry has a
\* record for them, which stays
discardedByLibrary(reg, lib) ==
  {p \in Paths : lib.ok /\ p \in lib.paths /\ Registered(reg, p)}

\* scanSerialPorts() up to the point where it awaits SerialPort.list(); when the
\* library cannot be loaded the pass ends here
ScanSerialPortsBegin(caller) ==
  /\ \E ps \in PortListings : /\ ports' = scanWithPowerShell(ps)
                              /\ libDiscarded' = {}
  /\ serialConns' = Detach(serialConns)
  /\ IF serialLib
     THEN /\ serialScans' = [serialScans EXCEPT ![caller] = @ + 1]
          /\ serialEmits' = {}
          /\ UNCHANGED serialResult
     ELSE /\ serialEmits' = {"ports-updated"}
          /\ serialResult' = SerialOk(caller)
          /\ UNCHANGED serialScans

\* SerialService.initialize()
SerialInitialize ==
  /\ Call("initialize", "serial")
  /\ serialCleaned' = FALSE
  /\ IF serialIsInitialized
     THEN /\ serialResult' = SerialOk("initialize")
          /\ serialEmits' = {}
          /\ libDiscarded' = {}
          /\ UNCHANGED <<ports, serialConns, serialScans, serialIsInitialized>>
     ELSE /\ serialScans["initialize"] < MaxScans
          /\ ScanSerialPortsBegin("initialize")
          /\ serialIsInitialized' = ~serialLib
  /\ UNCHANGED <<openConnections, serialLib>>
  /\ UNCHANGED serialIoVars

\* SerialService.getAvailableDevices() / getPorts()
SerialGetPorts ==
  /\ serialScans["getPorts"] < MaxScans
  /\ Call("getPorts", "serial")
  /\ serialCleaned' = FALSE
  /\ ScanSerialPortsBegin("getPorts")
  /\ UNCHANGED <<openConnections, serialLib, serialIsInitialized>>
  /\ UNCHANGED serialIoVars

\* SerialPort.list() settles: the rest of scanSerialPorts() and of its caller
ScanSerialPortsEnd(caller) ==
  /\ serialScans[caller] > 0
  /\ serialScans' = [serialScans EXCEPT ![caller] = @ - 1]
  /\ \E lib \in PortListings :
       /\ ports' = scanWithSerialPortLibrary(ports, lib)
       /\ libDiscarded' = discardedByLibrary(ports, lib)
  /\ serialEmits' = {"ports-updated"}
  /\ serialResult' = SerialOk(caller)
  /\ serialIsInitialized' = IF caller = "initialize" THEN TRUE ELSE serialIsInitialized
  /\ UNCHANGED <<openConnections, serialConns, serialLib, serialCleaned, callVars>>
  /\ UNCHANGED serialIoVars

\* the first check of openPort
\* variant of AlreadyOpen without the openConnections.has(portPath) test
AlreadyOpenUnchecked(p) == FALSE

AlreadyOpen(p) == openConnections[p] # 0

\* ids for a new SerialPort object: not the id of a live object, nor of a closed
\* one a read() is still waiting on
FreeConns == {c \in ConnIds : serialConns[c].state = "unused" /\ pendingRead[c].state = "none"}

\* SerialService.openPort(portPath) up to the point where it awaits the
\* connection's 'open' or 'error' event
OpenPort(p) ==
  /\ Call("openPort", p)
  /\ serialCleaned' = FALSE
  /\ IF AlreadyOpen(p)
     THEN /\ serialResult' = SerialFail("openPort", "AlreadyOpen")
          /\ serialEmits' = {"port-error"}
          /\ UNCHANGED serialConns
     ELSE IF ports[p] = "none"
     THEN /\ serialResult' = SerialFail("openPort", "NotFound")
          /\ serialEmits' = {"port-error"}
          /\ UNCHANGED serialConns
     ELSE IF ports[p] # "available"
     THEN /\ serialResult' = SerialFail("openPort", "Unavailable")
          /\ serialEmits' = {"port-error"}
          /\ UNCHANGED serialConns
     ELSE IF ~serialLib
     THEN /\ serialResult' = SerialFail("openPort", "ConnectionError")
          /\ serialEmits' = {"port-error"}
          /\ UNCHANGED serialConns
     ELSE /\ FreeConns # {}
          /\ LET c == CHOOSE x \in FreeConns : \A y \in FreeConns : x <= y
             IN serialConns' = [serialConns EXCEPT
                                  ![c] = [state |-> "opening", path |-> p, fresh |-> TRUE]]
          /\ serialEmits' = {}
          /\ UNCHANGED serialResult
  /\ libDiscarded' = {}
  /\ UNCHANGED <<ports, openConnections, serialScans, serialLib,
                 serialIsInitialized>>
  /\ UNCHANGED serialIoVars

\* the connection's 'open' event: the rest of openPort
OpenPortOpened(c) ==
  /\ serialConns[c].state = "opening"
  /\ LET p == serialConns[c].path
     IN /\ openConnections' = [openConnections EXCEPT ![p] = c]
        /\ ports' = IF serialConns[c].fresh THEN [ports EXCEPT ![p] = "busy"] ELSE ports
  /\ serialConns' = [serialConns EXCEPT ![c].state = "open"]
  /\ serialEmits' = {"port-opened"}
  /\ serialResult' = SerialOk("openPort")
  /\ libDiscarded' = {}
  /\ UNCHANGED <<serialScans, serialLib, serialIsInitialized,
                 serialCleaned, callVars>>
  /\ UNCHANGED serialIoVars

\* the connection's 'error' event before it opened: openPort returns false
OpenPortFailed(c) ==
  /\ serialConns[c].state = "opening"
  /\ serialConns' = [serialConns EXCEPT ![c] = UnusedConn]
  /\ serialEmits' = {"port-error"}
  /\ serialResult' = SerialFail("openPort", "ConnectionError")
  /\ libDiscarded' = {}
  /\ UNCHANGED <<ports, openConnections, serialScans, serialLib,
                 serialIsInitialized, serialCleaned, callVars>>
  /\ UNCHANGED serialIoVars

\* variant of ClosePort that announces 'port-closed' for a path with no connection
ClosePortAnnouncing(p) ==
  /\ Call("closePort", p)
  /\ serialCleaned' = FALSE
  /\ IF openConnections[p] = 0
     THEN /\ serialResult' = SerialOk("closePort")
          /\ serialEmits' = {"port-closed"}
          /\ UNCHANGED <<ports, openConnections, serialConns, dataCallbacks>>
     ELSE \E closed \in BOOLEAN :
            IF closed
            THEN /\ serialConns' = [serialConns EXCEPT ![openConnections[p]] = UnusedConn]
                 /\ dataCallbacks' = [dataCallbacks EXCEPT ![openConnections[p]] = 0]
                 /\ openConnections' = [openConnections EXCEPT ![p] = 0]
                 /\ ports' = IF ports[p] # "none" THEN [ports EXCEPT ![p] = "available"]
                                                  ELSE ports
                 /\ serialEmits' = {"port-closed"}
                 /\ serialResult' = SerialOk("closePort")
            ELSE /\ serialResult' = SerialFail("closePort", "CloseError")
                 /\ serialEmits' = {}
                 /\ UNCHANGED <<ports, openConnections, serialConns, dataCallbacks>>
  /\ libDiscarded' = {}
  /\ UNCHANGED <<serialScans, serialLib, serialIsInitialized>>
  /\ UNCHANGED <<pendingRead, readData>>

\* SerialService.closePort(portPath); the close callback may report an error
ClosePort(p) ==
  /\ Call("closePort", p)
  /\ serialCleaned' = FALSE
  /\ IF openConnections[p] = 0
     THEN /\ serialResult' = SerialOk("closePort")
          /\ serialEmits' = {}
          /\ UNCHANGED <<ports, openConnections, serialConns, dataCallbacks>>
     ELSE \E closed \in BOOLEAN :
            IF closed
            THEN /\ serialConns' = [serialConns EXCEPT ![openConnections[p]] = UnusedConn]
                 /\ dataCallbacks' = [dataCallbacks EXCEPT ![openConnections[p]] = 0]
                 /\ openConnections' = [openConnections EXCEPT ![p] = 0]
                 /\ ports' = IF ports[p] # "none" THEN [ports EXCEPT ![p] = "available"]
                                                  ELSE ports
                 /\ serialEmits' = {"port-closed"}
                 /\ serialResult' = SerialOk("closePort")
            ELSE /\ serialResult' = SerialFail("closePort", "CloseError")
                 /\ serialEmits' = {}
                 /\ UNCHANGED <<ports, openConnections, serialConns, dataCallbacks>>
  /\ libDiscarded' = {}
  /\ UNCHANGED <<serialScans, serialLib, serialIsInitialized>>
  /\ UNCHANGED <<pendingRead, readData>>

\* SerialService.cleanup()
SerialCleanup ==
  /\ Call("cleanup", "serial")
  /\ serialConns' = [c \in ConnIds |->
                       IF \E p \in Paths : openConnections[p] = c
                       THEN UnusedConn
                       ELSE [serialConns[c] EXCEPT !.fresh = FALSE]]
  /\ openConnections' = NoConnections
  /\ ports' = EmptyPortRegistry
  /\ libDiscarded' = {}
  /\ serialIsInitialized' = FALSE
  /\ serialEmits' = {}
  /\ serialResult' = SerialOk("cleanup")
  /\ serialCleaned' = TRUE
  /\ dataCallbacks' = [c \in ConnIds |->
                         IF \E p \in Paths : openConnections[p] = c
                         THEN 0 ELSE dataCallbacks[c]]
  /\ UNCHANGED <<serialScans, serialLib, pendingRead, readData>>

SerialNext ==
  \/ SerialInitialize
  \/ SerialGetPorts
  \/ \E k \in ScanCallers : ScanSerialPortsEnd(k)
  \/ \E p \in Paths : OpenPort(p)
  \/ \E c \in ConnIds : OpenPortOpened(c)
  \/ \E c \in ConnIds : OpenPortFailed(c)
  \/ \E p \in Paths : ClosePort(p)
  \/ SerialCleanup

(***************************************************************************)
(* SerialService: read, onData, removeDataListener                         *)
(***************************************************************************)
\* SerialService.read(portPath, timeout) up to the point where it awaits
\* readFromConnection: dataHandler is attached and the timer is started
SerialRead(p) ==
  /\ Call("read", p)
  /\ serialCleaned' = FALSE
  /\ IF openConnections[p] = 0
     THEN /\ serialResult' = SerialFail("read", "NotOpen")
          /\ serialEmits' = {"read-error"}
          /\ UNCHANGED pendingRead
     ELSE /\ pendingRead[openConnections[p]].state = "none"
          /\ pendingRead' = [pendingRead EXCEPT ![openConnections[p]] =
                               [state |-> "pending", attached |-> TRUE, chunkSeen |-> FALSE]]
          /\ serialEmits' = {}
          /\ UNCHANGED serialResult
  /\ libDiscarded' = {}
  /\ UNCHANGED <<ports, openConnections, serialConns, serialScans, serialLib,
                 serialIsInitialized, dataCallbacks, readData>>

\* SerialService.onData(portPath, callback)
SerialOnData(p) ==
  /\ Call("onData", p)
  /\ serialCleaned' = FALSE
  /\ IF openConnections[p] = 0
     THEN /\ serialResult' = SerialFail("onData", "NotOpen")
          /\ UNCHANGED dataCallbacks
     ELSE /\ dataCallbacks[openConnections[p]] < MaxCallbacks
          /\ dataCallbacks' = [dataCallbacks EXCEPT ![openConnections[p]] = @ + 1]
          /\ serialResult' = SerialOk("onData")
  /\ serialEmits' = {}
  /\ libDiscarded' = {}
  /\ UNCHANGED <<ports, openConnections, serialConns, serialScans, serialLib,
                 serialIsInitialized, pendingRead, readData>>

\* removeDataListenerFromConnection: connection.removeAllListeners('data')
removeAllDataListeners(c) ==
  /\ dataCallbacks' = [dataCallbacks EXCEPT ![c] = 0]
  /\ pendingRead' = [pendingRead EXCEPT ![c].attached = FALSE]

\* SerialService.removeDataListener(portPath)
SerialRemoveDataListener(p) ==
  /\ Call("removeDataListener", p)
  /\ serialCleaned' = FALSE
  /\ IF openConnections[p] = 0
     THEN UNCHANGED <<dataCallbacks, pendingRead>>
     ELSE removeAllDataListeners(openConnections[p])
  /\ serialResult' = SerialOk("removeDataListener")
  /\ serialEmits' = {}
  /\ libDiscarded' = {}
  /\ UNCHANGED <<ports, openConnections, serialConns, serialScans, serialLib,
                 serialIsInitialized, readData>>

\* the connection emits 'data' with chunk d: every attached listener runs; an
\* attached dataHandler clears its timer, detaches itself and resolves the read
DataChunk(c, d) ==
  /\ serialConns[c].state = "open"
  /\ IF pendingRead[c].state = "pending" /\ pendingRead[c].attached
     THEN /\ pendingRead' = [pendingRead EXCEPT ![c] = NoRead]
          /\ readData' = d
          /\ serialResult' = SerialOk("read")
          /\ serialEmits' = {"data-received"}
     ELSE /\ pendingRead' = IF pendingRead[c].state = "pending"
                            THEN [pendingRead EXCEPT ![c].chunkSeen = TRUE]
                            ELSE pendingRead
          /\ serialEmits' = {}
          /\ UNCHANGED <<readData, serialResult>>
  /\ libDiscarded' = {}
  /\ UNCHANGED <<ports, openConnections, serialConns, serialScans, serialLib,
                 serialIsInitialized, serialCleaned, dataCallbacks, callVars>>

\* the timer of readFromConnection fires: the read fails with Timeout
ReadTimeout(c) ==
  /\ pendingRead[c].state = "pending"
  /\ pendingRead' = [pendingRead EXCEPT ![c] = NoRead]
  /\ serialResult' = SerialFail("read", "Timeout")
  /\ serialEmits' = {"read-error"}
  /\ libDiscarded' = {}
  /\ UNCHANGED <<ports, openConnections, serialConns, serialScans, serialLib,
                 serialIsInitialized, serialCleaned, dataCallbacks, readData, callVars>>

\* the operations on an open port, with the life cycle that leads to one
SerialIoNext ==
  \/ SerialInitialize
  \/ ScanSerialPortsEnd("initialize")
  \/ \E p \in Paths : OpenPort(p)
  \/ \E c \in ConnIds : OpenPortOpened(c)
  \/ \E p \in Paths : SerialRead(p)
  \/ \E p \in Paths : SerialOnData(p)
  \/ \E p \in Paths : SerialRemoveDataListener(p)
  \/ \E c \in ConnIds, d \in Chunks : DataChunk(c, d)
  \/ \E c \in ConnIds : ReadTimeout(c)

(***************************************************************************)
(* CameraService                                                           *)
(***************************************************************************)
VARIABLES
  cameras,              \* registry: camera id -> status ("none" = no record)
  activeCaptures,       \* camera id -> TRUE when the map holds a stream entry
  cameraStreams,        \* stream objects created and not stopped, per camera id
  cameraIsInitialized,
  cameraListed,         \* the ids the two listings stored in the last discovery pass
  cameraDefaultEntry,   \* TRUE when the registry holds the record 'Câmera Padrão'
  cameraCapture,        \* the last capturePhoto call: its mode and how far it got
  cameraTempFile,       \* TRUE when the file written by the last capturePhoto call exists
  cameraEmits,          \* events emitted by the last operation
  cameraResult          \* what the last operation returned

cameraVars == <<cameras, activeCaptures, cameraStreams, cameraIsInitialized,
                cameraListed, cameraDefaultEntry, cameraCapture, cameraTempFile,
                cameraEmits, cameraResult>>

WebcamIds == {"0", "1"}            \* detectWebcams: the index in the listing
UsbCamIds == {"usb1"}              \* detectUSBCameras: the DeviceID
CamIds == WebcamIds \cup UsbCamIds

\* What the webcam listing can give: it fails, or it lists devices by index,
\* each with Status 'OK' or another status.
WebcamListings ==
  {[ok |-> FALSE, st |-> [i \in WebcamIds |-> "absent"]]}
    \cup [ok : {TRUE}, st : [WebcamIds -> {"absent", "OK", "Error"}]]
UsbCamListings == {[ok |-> FALSE, ids |-> {}]} \cup [ok : {TRUE}, ids : SUBSET UsbCamIds]

EmptyCameraRegistry == [i \in CamIds |-> "none"]
NoCaptures == [i \in CamIds |-> FALSE]
NoStreams == [i \in CamIds |-> 0]
NoCameraResult == [op |-> "none", ok |-> FALSE, reason |-> "none"]
CameraOk(op) == [op |-> op, ok |-> TRUE, reason |-> "none"]
CameraFail(op, reason) == [op |-> op, ok |-> FALSE, reason |-> reason]

\* stage: "none", "rejected" (camera not found or not available),
\* "captureFailed", "saved", "readFailed", "unlinkFailed" or "encoded"
NoCapture == [saveToFile |-> FALSE, stage |-> "none"]
CaptureAt(saveToFile, stage) == [saveToFile |-> saveToFile, stage |-> stage]

CameraInit ==
  /\ cameras = EmptyCameraRegistry
  /\ activeCaptures = NoCaptures
  /\ cameraStreams = NoStreams
  /\ cameraIsInitialized = FALSE
  /\ cameraListed = {}
  /\ cameraDefaultEntry = FALSE
  /\ cameraCapture = NoCapture
  /\ cameraTempFile = FALSE
  /\ cameraEmits = {}
  /\ cameraResult = NoCameraResult

\* detectWebcams() after this.cameras.clear()
detectWebcams(web) ==
  [i \in CamIds |-> IF web.ok /\ i \in WebcamIds /\ web.st[i] # "absent"
                    THEN (IF web.st[i] = "OK" THEN "available" ELSE "error")
                    ELSE "none"]

\* detectUSBCameras(): adds the ids the registry does not hold
detectUSBCameras(reg, usb) ==
  [i \in CamIds |-> IF usb.ok /\ i \in usb.ids /\ reg[i] = "none"
                    THEN "available" ELSE reg[i]]

\* variant of NoneFound without the test this.cameras.size === 0
NoneFoundNever(found) == FALSE

\* this.cameras.size === 0 after the two listings
NoneFound(found) == \A i \in CamIds : found[i] = "none"

\* detectCameras(): both listings, then the default camera when none was found
detectCameras(web, usb) ==
  LET found == detectUSBCameras(detectWebcams(web), usb)
  IN IF NoneFound(found)
     THEN [found EXCEPT !["0"] = "available"]
     ELSE found

\* one discovery pass: the registry is replaced
CameraPass ==
  \E web \in WebcamListings, usb \in UsbCamListings :
    LET found == detectUSBCameras(detectWebcams(web), usb)
    IN /\ cameras' = detectCameras(web, usb)
       /\ cameraListed' = {i \in CamIds : found[i] # "none"}
       /\ cameraDefaultEntry' = NoneFound(found)

\* CameraService.initialize()
CameraInitialize ==
  /\ Call("initialize", "camera")
  /\ IF cameraIsInitialized
     THEN /\ cameraEmits' = {}
          /\ UNCHANGED <<cameras, cameraIsInitialized, cameraListed, cameraDefaultEntry>>
     ELSE /\ CameraPass
          /\ cameraEmits' = {"cameras-updated"}
          /\ cameraIsInitialized' = TRUE
  /\ cameraResult' = CameraOk("initialize")
  /\ UNCHANGED <<activeCaptures, cameraStreams, cameraCapture, cameraTempFile>>

\* CameraService.cleanup(): stops the streams of the map, clears everything
CameraCleanup ==
  /\ Call("cleanup", "camera")
  /\ cameraStreams' = [i \in CamIds |-> IF activeCaptures[i] THEN cameraStreams[i] - 1
                                                             ELSE cameraStreams[i]]
  /\ activeCaptures' = NoCaptures
  /\ cameras' = EmptyCameraRegistry
  /\ cameraListed' = {}
  /\ cameraDefaultEntry' = FALSE
  /\ cameraIsInitialized' = FALSE
  /\ cameraEmits' = {}
  /\ cameraResult' = CameraOk("cleanup")
  /\ UNCHANGED <<cameraCapture, cameraTempFile>>

\* CameraService.getAvailableDevices() / getCameras()
CameraGetCameras ==
  /\ Call("getCameras", "camera")
  /\ CameraPass
  /\ cameraEmits' = {"cameras-updated"}
  /\ cameraResult' = CameraOk("getCameras")
  /\ UNCHANGED <<activeCaptures, cameraStreams, cameraIsInitialized, cameraCapture,
                 cameraTempFile>>

\* the busy check of startVideoStream
\* variant of StreamActive without the activeCaptures.has(cameraId) test
StreamActiveUnchecked(id) == FALSE

StreamActive(id) == activeCaptures[id]

\* CameraService.startVideoStream(cameraId), createVideoStream included
StartVideoStream(id) ==
  /\ Call("startVideoStream", id)
  /\ IF cameras[id] = "none"
     THEN /\ cameraResult' = CameraFail("startVideoStream", "NotFound")
          /\ cameraEmits' = {"stream-error"}
          /\ UNCHANGED <<cameras, activeCaptures, cameraStreams>>
     ELSE IF StreamActive(id)
     THEN /\ cameraResult' = CameraFail("startVideoStream", "DeviceBusy")
          /\ cameraEmits' = {"stream-error"}
          /\ UNCHANGED <<cameras, activeCaptures, cameraStreams>>
     ELSE /\ cameras' = [cameras EXCEPT ![id] = "busy"]
          /\ activeCaptures' = [activeCaptures EXCEPT ![id] = TRUE]
          /\ cameraStreams' = [cameraStreams EXCEPT ![id] = @ + 1]
          /\ cameraEmits' = {"stream-started"}
          /\ cameraResult' = CameraOk("startVideoStream")
  /\ UNCHANGED <<cameraIsInitialized, cameraListed, cameraDefaultEntry, cameraCapture,
                 cameraTempFile>>

\* CameraService.stopVideoStream(cameraId)
StopVideoStream(id) ==
  /\ Call("stopVideoStream", id)
  /\ IF activeCaptures[id]
     THEN \E stopOk \in BOOLEAN :
            IF stopOk
            THEN /\ cameraStreams' = [cameraStreams EXCEPT ![id] = @ - 1]
                 /\ activeCaptures' = [activeCaptures EXCEPT ![id] = FALSE]
                 /\ cameras' = IF cameras[id] # "none"
                               THEN [cameras EXCEPT ![id] = "available"]
                               ELSE cameras
                 /\ cameraEmits' = {"stream-stopped"}
                 /\ cameraResult' = CameraOk("stopVideoStream")
            ELSE /\ cameraEmits' = {}             \* capture.stop() threw: rethrown
                 /\ cameraResult' = CameraFail("stopVideoStream", "StopError")
                 /\ UNCHANGED <<cameras, activeCaptures, cameraStreams>>
     ELSE /\ cameraEmits' = {}
          /\ cameraResult' = CameraOk("stopVideoStream")
          /\ UNCHANGED <<cameras, activeCaptures, cameraStreams>>
  /\ UNCHANGED <<cameraIsInitialized, cameraListed, cameraDefaultEntry, cameraCapture,
                 cameraTempFile>>

\* CameraService.capturePhoto(cameraId, options): saveToFile is the mode; the
\* capture backend writes the file or fails, reading the file and deleting it
\* succeed or throw. The steps after the awaited capture read no field of the
\* service, so the call is taken as one step.
CapturePhoto(id, saveToFile) ==
  /\ Call("capturePhoto", id)
  /\ IF cameras[id] = "none"
     THEN /\ cameraResult' = CameraFail("capturePhoto", "NotFound")
          /\ cameraEmits' = {"capture-error"}
          /\ cameraCapture' = CaptureAt(saveToFile, "rejected")
          /\ cameraTempFile' = FALSE
     ELSE IF cameras[id] # "available"
     THEN /\ cameraResult' = CameraFail("capturePhoto", "Unavailable")
          /\ cameraEmits' = {"capture-error"}
          /\ cameraCapture' = CaptureAt(saveToFile, "rejected")
          /\ cameraTempFile' = FALSE
     ELSE \E captured \in BOOLEAN :
            IF ~captured
            THEN /\ cameraResult' = CameraFail("capturePhoto", "CaptureError")
                 /\ cameraEmits' = {"capture-error"}
                 /\ cameraCapture' = CaptureAt(saveToFile, "captureFailed")
                 /\ cameraTempFile' = FALSE
            ELSE IF saveToFile
            THEN /\ cameraResult' = CameraOk("capturePhoto")
                 /\ cameraEmits' = {"photo-captured"}
                 /\ cameraCapture' = CaptureAt(saveToFile, "saved")
                 /\ cameraTempFile' = TRUE
            ELSE \E readOk \in BOOLEAN :
                   IF ~readOk                      \* imageToBase64 throws
                   THEN /\ cameraResult' = CameraFail("capturePhoto", "EncodeError")
                        /\ cameraEmits' = {"capture-error"}
                        /\ cameraCapture' = CaptureAt(saveToFile, "readFailed")
                        /\ cameraTempFile' = TRUE
                   ELSE \E unlinkOk \in BOOLEAN :  \* cleanupTempFile
                          /\ cameraResult' = CameraOk("capturePhoto")
                          /\ cameraEmits' = {"photo-captured"}
                          /\ cameraCapture' =
                               CaptureAt(saveToFile, IF unlinkOk THEN "encoded"
                                                                  ELSE "unlinkFailed")
                          /\ cameraTempFile' = ~unlinkOk
  /\ UNCHANGED <<cameras, activeCaptures, cameraStreams, cameraIsInitialized, cameraListed,
                 cameraDefaultEntry>>

CameraNext ==
  \/ CameraInitialize
  \/ CameraCleanup
  \/ CameraGetCameras
  \/ \E id \in CamIds : StartVideoStream(id)
  \/ \E id \in CamIds : StopVideoStream(id)
  \/ \E id \in CamIds, saveToFile \in BOOLEAN : CapturePhoto(id, saveToFile)

(***************************************************************************)
(* PrinterService                                                          *)
(***************************************************************************)
VARIABLES
  printers,             \* registry: printer name -> "none", "plain" or "default"
  printerIsInitialized,
  printLookup,          \* the list print() got from getPrinters() to find the default
  printBackend,         \* the printing backend the last operation invoked
  printType,            \* the type the last print() was given
  printerEmits,         \* events emitted by the last operation
  printerSource,        \* the listing that answered the last refresh ("notrun" = no refresh)
  printerResult         \* what the last operation returned

printerVars == <<printers, printerIsInitialized, printLookup, printBackend, printType,
                 printerEmits, printerSource, printerResult>>

PrinterNames == {"P1", "P2"}
ContentTypes == {"text", "html", "pdf", "docx"}
PrinterOptions == {"unset"} \cup PrinterNames      \* options.printer

EmptyPrinterRegistry == [n \in PrinterNames |-> "none"]
\* What one refresh can get from the OS: Get-Printer answers, or it fails and
\* wmic answers, or both fail.
PrinterListings ==
  {[src |-> "none", list |-> EmptyPrinterRegistry]}
    \cup [src : {"primary", "fallback"},
          list : [PrinterNames -> {"none", "plain", "default"}]]

NoPrinterResult == [op |-> "none", ok |-> FALSE, reason |-> "none"]
PrinterOk(op) == [op |-> op, ok |-> TRUE, reason |-> "none"]
PrinterFail(op, reason) == [op |-> op, ok |-> FALSE, reason |-> reason]

PrinterInit ==
  /\ printers = EmptyPrinterRegistry
  /\ printerIsInitialized = FALSE
  /\ printLookup = EmptyPrinterRegistry
  /\ printBackend = "none"
  /\ printType = "none"
  /\ printerEmits = {}
  /\ printerSource = "notrun"
  /\ printerResult = NoPrinterResult

\* refreshPrinterList() with fallbackPrinterList(): the registry is replaced by
\* the listing that answered and is left as it was when both fail
refreshPrinterList(reg, e) == IF e.src = "none" THEN reg ELSE e.list

\* the printers print() takes as default: those find(p => p.isDefault) can return
\* variant of DefaultPrinters that falls back on any listed printer
DefaultPrintersOrAny(reg) ==
  IF {n \in PrinterNames : reg[n] = "default"} # {}
  THEN {n \in PrinterNames : reg[n] = "default"}
  ELSE {n \in PrinterNames : reg[n] # "none"}

DefaultPrinters(reg) == {n \in PrinterNames : reg[n] = "default"}

\* PrinterService.initialize()
PrinterInitialize ==
  /\ Call("initialize", "printer")
  /\ IF printerIsInitialized
     THEN /\ printerEmits' = {}
          /\ printerSource' = "notrun"
          /\ UNCHANGED <<printers, printerIsInitialized>>
     ELSE /\ \E e \in PrinterListings :
               /\ printers' = refreshPrinterList(printers, e)
               /\ printerSource' = e.src
               /\ printerEmits' = IF e.src = "primary" THEN {"printers-updated"} ELSE {}
          /\ printerIsInitialized' = TRUE
  /\ printerResult' = PrinterOk("initialize")
  /\ UNCHANGED <<printLookup, printBackend, printType>>

\* PrinterService.cleanup()
PrinterCleanup ==
  /\ Call("cleanup", "printer")
  /\ printers' = EmptyPrinterRegistry
  /\ printerIsInitialized' = FALSE
  /\ printerEmits' = {}
  /\ printerSource' = "notrun"
  /\ printerResult' = PrinterOk("cleanup")
  /\ UNCHANGED <<printLookup, printBackend, printType>>

\* PrinterService.getAvailableDevices() / getPrinters()
PrinterGetPrinters ==
  /\ Call("getPrinters", "printer")
  /\ \E e \in PrinterListings :
       /\ printers' = refreshPrinterList(printers, e)
       /\ printerSource' = e.src
       /\ printerEmits' = IF e.src = "primary" THEN {"printers-updated"} ELSE {}
  /\ printerResult' = PrinterOk("getPrinters")
  /\ UNCHANGED <<printerIsInitialized, printLookup, printBackend, printType>>

\* what a refresh inside print() can leave in the registry; which of the two
\* listings answered makes no difference to print()
PrintListings == {e \in PrinterListings : e.src # "fallback"}

\* the cases of the switch on type in print()
\* variant of SupportedType that has a case for every type
SupportedTypeAny(type) == TRUE

SupportedType(type) == type \in {"text", "html", "pdf"}

\* PrinterService.print({content, type, options}); type and options.printer are
\* the inputs, the listings are what the two refreshes get from the OS
PrinterPrint(type, opt) ==
  /\ Call("print", opt)
  /\ printType' = type
  /\ \E e1 \in (IF opt = "unset" THEN PrintListings
                                ELSE {[src |-> "none", list |-> EmptyPrinterRegistry]}) :
       LET reg1 == refreshPrinterList(printers, e1)
       IN /\ printLookup' = reg1
          /\ IF opt = "unset" /\ DefaultPrinters(reg1) = {}
             THEN /\ printers' = reg1
                  /\ printerSource' = e1.src
                  /\ printBackend' = "none"
                  /\ printerEmits' = {"print-error"}
                  /\ printerResult' = PrinterFail("print", "NoDefaultPrinter")
             ELSE \E target \in (IF opt = "unset" THEN DefaultPrinters(reg1) ELSE {opt}),
                     e2 \in PrintListings :
                    LET reg2 == refreshPrinterList(reg1, e2)
                    IN /\ printers' = reg2
                       /\ printerSource' = e2.src
                       /\ IF reg2[target] = "none"
                          THEN /\ printBackend' = "none"
                               /\ printerEmits' = {"print-error"}
                               /\ printerResult' = PrinterFail("print", "PrinterUnavailable")
                          ELSE IF ~SupportedType(type)
                          THEN /\ printBackend' = "none"
                               /\ printerEmits' = {"print-error"}
                               /\ printerResult' = PrinterFail("print", "UnsupportedType")
                          ELSE /\ printBackend' = type
                               /\ \E done \in BOOLEAN :
                                    IF done
                                    THEN /\ printerEmits' = {"print-success"}
                                         /\ printerResult' = PrinterOk("print")
                                    ELSE /\ printerEmits' = {"print-error"}
                                         /\ printerResult' = PrinterFail("print", "BackendError")
  /\ UNCHANGED printerIsInitialized

PrinterNext ==
  \/ PrinterInitialize
  \/ PrinterCleanup
  \/ PrinterGetPrinters
  \/ \E type \in ContentTypes, opt \in PrinterOptions : PrinterPrint(type, opt)

(***************************************************************************)
(* ScannerService: one scan request (startScanning)                        *)
(***************************************************************************)
VARIABLES
  scanPhase,            \* "Idle", "ConnectivityCheck", "Scanning", "Done", "Failed"
  probe,                \* the PowerShell probe process of checkScannerConnection
  probeOutput,          \* what the probe wrote to stdout ("" = nothing yet)
  checkTimer,           \* the 10 s timer of checkScannerConnection
  checkSettledBy,       \* what resolved the promise of checkScannerConnection
  naps2,                \* the NAPS2 console process of performRealScan
  scanFile,             \* TRUE when the output file of this request exists
  scanTimer,            \* the 120 s timer of performRealScan
  scanSettledBy,        \* what resolved the promise of performRealScan
  scanSpawns,           \* how often this request spawned the scanning utility
  scanExit,             \* what the close handler of performRealScan saw
  scanResult            \* what startScanning returned

scannerVars == <<scanPhase, probe, probeOutput, checkTimer, checkSettledBy, naps2,
                 scanFile, scanTimer, scanSettledBy, scanSpawns, scanExit, scanResult>>

ProbeOutputs == {"CONNECTED", "NO_SCANNER", "ERROR", "other"}
StderrKinds == {"empty", "NoDevice", "NoPages", "other"}
NoScanResult == [success |-> FALSE, reason |-> "none"]
NoExit == [code |-> -1, fileExists |-> FALSE, readOk |-> FALSE, unlinkOk |-> FALSE,
           stderr |-> "empty", stdoutError |-> FALSE]
\* a promise settles once: resolve() on a settled promise has no effect
AlreadySettledNever(by) == FALSE

AlreadySettled(by) == by # "none"
ScanSuccess == [success |-> TRUE, reason |-> "none"]
ScanFailure(reason) == [success |-> FALSE, reason |-> reason]

ScannerInit ==
  /\ scanPhase = "Idle"
  /\ probe = "none"
  /\ probeOutput = ""
  /\ checkTimer = "off"
  /\ checkSettledBy = "none"
  /\ naps2 = "none"
  /\ scanFile = FALSE
  /\ scanTimer = "off"
  /\ scanSettledBy = "none"
  /\ scanSpawns = 0
  /\ scanExit = NoExit
  /\ scanResult = NoScanResult

\* the close handler of checkScannerConnection: the result for an output
\* variant of CheckResult that takes any probe output naming a scanner as connected
CheckResultAnyScanner(out) ==
  IF out \in {"CONNECTED", "NO_SCANNER"} THEN [connected |-> TRUE, error |-> "none"]
  ELSE IF out = "ERROR" THEN [connected |-> FALSE, error |-> "ConnectError"]
  ELSE [connected |-> FALSE, error |-> "Unknown"]

CheckResult(out) ==
  IF out = "CONNECTED" THEN [connected |-> TRUE, error |-> "none"]
  ELSE IF out = "NO_SCANNER" THEN [connected |-> FALSE, error |-> "NotConnected"]
  ELSE IF out = "ERROR" THEN [connected |-> FALSE, error |-> "ConnectError"]
  ELSE [connected |-> FALSE, error |-> "Unknown"]

\* variant of ScanOutcome that does not test that the output file exists
ScanOutcomeByCode(code, fileExists, readOk, unlinkOk, stderr, stdoutError) ==
  IF code = 0
  THEN (IF readOk /\ unlinkOk THEN ScanSuccess ELSE ScanFailure("ReadError"))
  ELSE IF stderr = "NoDevice" THEN ScanFailure("NotConnected")
  ELSE IF stderr = "NoPages" THEN ScanFailure("NoPages")
  ELSE IF stderr = "other" THEN ScanFailure("ExternalToolError")
  ELSE IF stdoutError THEN ScanFailure("ExternalToolError")
  ELSE ScanFailure("ScanError")

\* the close handler of performRealScan: the result for an exit; readOk and
\* unlinkOk tell whether readFileSync and unlinkSync return or throw
ScanOutcome(code, fileExists, readOk, unlinkOk, stderr, stdoutError) ==
  IF code = 0 /\ fileExists
  THEN (IF readOk /\ unlinkOk THEN ScanSuccess ELSE ScanFailure("ReadError"))
  ELSE IF stderr = "NoDevice" THEN ScanFailure("NotConnected")
  ELSE IF stderr = "NoPages" THEN ScanFailure("NoPages")
  ELSE IF stderr = "other" THEN ScanFailure("ExternalToolError")
  ELSE IF stdoutError THEN ScanFailure("ExternalToolError")
  ELSE ScanFailure("ScanError")

\* startScanning returns a failure
ScanFails(reason) ==
  /\ scanPhase' = "Failed"
  /\ scanResult' = ScanFailure(reason)

\* startScanning(duplex) up to the point where it awaits checkScannerConnection;
\* a request starts when the processes and timers of the previous one are gone
StartScanning ==
  /\ scanPhase \in {"Idle", "Done", "Failed"}
  /\ probe \notin {"running", "killed"}
  /\ naps2 \notin {"running", "killed"}
  /\ checkTimer # "armed"
  /\ scanTimer # "armed"
  /\ Call("startScanning", "scanner")
  /\ probeOutput' = ""
  /\ naps2' = "none"
  /\ scanFile' = FALSE
  /\ scanTimer' = "off"
  /\ scanSettledBy' = "none"
  /\ scanSpawns' = 0
  /\ scanExit' = NoExit
  /\ \E spawned \in BOOLEAN :
       IF spawned
       THEN /\ probe' = "running"
            /\ checkTimer' = "armed"
            /\ checkSettledBy' = "none"
            /\ scanPhase' = "ConnectivityCheck"
            /\ scanResult' = NoScanResult
       ELSE /\ probe' = "none"                  \* spawn threw
            /\ checkTimer' = "off"
            /\ checkSettledBy' = "throw"
            /\ ScanFails("SpawnError")

\* the probe writes its finding to stdout
ProbeData(out) ==
  /\ probe = "running"
  /\ probeOutput = ""
  /\ probeOutput' = out
  /\ UNCHANGED <<scanPhase, probe, checkTimer, checkSettledBy, naps2, scanFile,
                 scanTimer, scanSettledBy, scanSpawns, scanExit, scanResult, callVars>>

\* variant of PerformRealScanBegin that spawns the utility a second time
PerformRealScanTwice ==
  \E env \in {"missing", "throws", "spawned"} :
    IF env = "spawned"
    THEN /\ naps2' = "running"
         /\ scanSpawns' = scanSpawns + 2
         /\ scanTimer' = "armed"
         /\ scanPhase' = "Scanning"
         /\ UNCHANGED <<scanSettledBy, scanResult>>
    ELSE /\ ScanFails(IF env = "missing" THEN "ToolMissing" ELSE "GeneralError")
         /\ scanSettledBy' = "throw"
         /\ UNCHANGED <<naps2, scanSpawns, scanTimer>>

\* performRealScan(duplex) up to the point where it awaits the utility
PerformRealScanBegin ==
  \E env \in {"missing", "throws", "spawned"} :
    IF env = "spawned"
    THEN /\ naps2' = "running"
         /\ scanSpawns' = scanSpawns + 1
         /\ scanTimer' = "armed"
         /\ scanPhase' = "Scanning"
         /\ UNCHANGED <<scanSettledBy, scanResult>>
    ELSE /\ ScanFails(IF env = "missing" THEN "ToolMissing" ELSE "GeneralError")
         /\ scanSettledBy' = "throw"
         /\ UNCHANGED <<naps2, scanSpawns, scanTimer>>

\* the probe's 'close' event, and the rest of startScanning when it settles
\* the connectivity check
ProbeClose ==
  /\ probe \in {"running", "killed", "failed"}
  /\ probe' = "closed"
  /\ IF AlreadySettled(checkSettledBy)
     THEN UNCHANGED <<scanPhase, checkSettledBy, naps2, scanTimer, scanSettledBy,
                      scanSpawns, scanResult>>
     ELSE /\ checkSettledBy' = "close"
          /\ IF CheckResult(probeOutput).connected
             THEN PerformRealScanBegin
             ELSE /\ ScanFails(CheckResult(probeOutput).error)
                  /\ UNCHANGED <<naps2, scanTimer, scanSettledBy, scanSpawns>>
  /\ UNCHANGED <<probeOutput, checkTimer, scanFile, scanExit, callVars>>

\* the probe's 'error' event
ProbeError ==
  /\ probe = "running"
  /\ probeOutput = ""
  /\ probe' = "failed"
  /\ IF AlreadySettled(checkSettledBy)
     THEN UNCHANGED <<scanPhase, checkSettledBy, scanResult>>
     ELSE /\ checkSettledBy' = "error"
          /\ ScanFails("SpawnError")
  /\ UNCHANGED <<probeOutput, checkTimer, naps2, scanFile, scanTimer, scanSettledBy,
                 scanSpawns, scanExit, callVars>>

\* the 10 s timer of checkScannerConnection expires; it is never cancelled
CheckTimerFires ==
  /\ checkTimer = "armed"
  /\ checkTimer' = "fired"
  /\ probe' = IF probe = "running" THEN "killed" ELSE probe
  /\ IF AlreadySettled(checkSettledBy)
     THEN UNCHANGED <<scanPhase, checkSettledBy, scanResult>>
     ELSE /\ checkSettledBy' = "timer"
          /\ ScanFails("Timeout")
  /\ UNCHANGED <<probeOutput, naps2, scanFile, scanTimer, scanSettledBy, scanSpawns,
                 scanExit, callVars>>

\* the utility writes the output document
NapsWritesFile ==
  /\ naps2 = "running"
  /\ ~scanFile
  /\ scanFile' = TRUE
  /\ UNCHANGED <<scanPhase, probe, probeOutput, checkTimer, checkSettledBy, naps2,
                 scanTimer, scanSettledBy, scanSpawns, scanExit, scanResult, callVars>>

\* the utility's 'close' event: the result is read, encoded and returned
NapsClose(code, readOk, unlinkOk, stderr, stdoutError) ==
  /\ naps2 \in {"running", "killed", "failed"}
  /\ naps2' = "exited"
  /\ scanExit' = [code |-> code, fileExists |-> scanFile, readOk |-> readOk,
                  unlinkOk |-> unlinkOk, stderr |-> stderr, stdoutError |-> stdoutError]
  /\ LET r == ScanOutcome(code, scanFile, readOk, unlinkOk, stderr, stdoutError)
     IN /\ scanFile' = IF r.success THEN FALSE ELSE scanFile   \* fs.unlinkSync
        /\ IF AlreadySettled(scanSettledBy)
           THEN UNCHANGED <<scanPhase, scanSettledBy, scanResult>>
           ELSE /\ scanSettledBy' = "close"
                /\ scanResult' = r
                /\ scanPhase' = IF r.success THEN "Done" ELSE "Failed"
  /\ UNCHANGED <<probe, probeOutput, checkTimer, checkSettledBy, scanTimer, scanSpawns,
                 callVars>>

\* the utility's 'error' event
NapsError ==
  /\ naps2 = "running"
  /\ naps2' = "failed"
  /\ IF AlreadySettled(scanSettledBy)
     THEN UNCHANGED <<scanPhase, scanSettledBy, scanResult>>
     ELSE /\ scanSettledBy' = "error"
          /\ ScanFails("SpawnError")
  /\ UNCHANGED <<probe, probeOutput, checkTimer, checkSettledBy, scanFile, scanTimer,
                 scanSpawns, scanExit, callVars>>

\* variant of ScanTimerFires whose result replaces the one already delivered
ScanTimerFiresOverwrites ==
  /\ scanTimer = "armed"
  /\ scanTimer' = "fired"
  /\ naps2' = IF naps2 = "running" THEN "killed" ELSE naps2
  /\ scanSettledBy' = "timer"
  /\ ScanFails("Timeout")
  /\ UNCHANGED <<probe, probeOutput, checkTimer, checkSettledBy, scanFile, scanSpawns,
                 scanExit, callVars>>

\* the 120 s timer of performRealScan expires; it is never cancelled
ScanTimerFires ==
  /\ scanTimer = "armed"
  /\ scanTimer' = "fired"
  /\ naps2' = IF naps2 = "running" THEN "killed" ELSE naps2
  /\ IF AlreadySettled(scanSettledBy)
     THEN UNCHANGED <<scanPhase, scanSettledBy, scanResult>>
     ELSE /\ scanSettledBy' = "timer"
          /\ ScanFails("Timeout")
  /\ UNCHANGED <<probe, probeOutput, checkTimer, checkSettledBy, scanFile, scanSpawns,
                 scanExit, callVars>>

ScannerNext ==
  \/ StartScanning
  \/ \E out \in ProbeOutputs : ProbeData(out)
  \/ ProbeClose
  \/ ProbeError
  \/ CheckTimerFires
  \/ NapsWritesFile
  \/ \E code \in {0, 1}, readOk, unlinkOk \in BOOLEAN, stderr \in StderrKinds,
        stdoutError \in BOOLEAN :
       NapsClose(code, readOk, unlinkOk, stderr, stdoutError)
  \/ NapsError
  \/ ScanTimerFires

(***************************************************************************)
(* ScannerService: the scanner registry (getScanners, setDefaultScanner)   *)
(***************************************************************************)
VARIABLES
  connectedScanners,    \* registry: scanner id -> "none", "plain" or "default" (isDefault)
  scannerRefreshes,     \* refreshScanners() calls awaiting detectWindowsScanners()
  defaultScannerId,     \* the configuration value 'defaultScannerId' ("unset" = none)
  scannerRegResult,     \* what the last finished registry operation returned
  refreshBeforeDefault  \* a refresh that began before the last successful
                        \* setDefaultScanner may still be awaiting its detection

scanRegVars == <<connectedScanners, scannerRefreshes, defaultScannerId, scannerRegResult,
                 refreshBeforeDefault>>

ScannerIds == {"S1", "S2"}
MockScannerId == "mock-scanner-001"
RegistryIds == ScannerIds \cup {MockScannerId}
SetDefaultArgs == RegistryIds \cup {"unknown"}

\* what detectWindowsScanners() resolves: the scanners in the order of the
\* probe's listing; the empty list also stands for a parse error, an 'error'
\* event and the 5 s timeout
ScannerListings == {<<>>, <<"S1">>, <<"S2">>, <<"S1", "S2">>, <<"S2", "S1">>}

EmptyScannerRegistry == [i \in RegistryIds |-> "none"]
NoScannerRegResult == [op |-> "none", ok |-> FALSE]

\* the state the constructor leaves: initializeService() has called
\* refreshScanners(), which cleared the registry and awaits the detection
ScanRegInit ==
  /\ connectedScanners = EmptyScannerRegistry
  /\ scannerRefreshes = 1
  /\ defaultScannerId = "unset"
  /\ scannerRegResult = NoScannerRegResult
  /\ refreshBeforeDefault = FALSE

\* the records detectWindowsScanners() builds: isDefault is index === 0
DetectedRecord(list, i) ==
  IF list[1] = i THEN "default" ELSE "plain"

\* refreshScanners() from the forEach on: the detected records are set, and the
\* simulated scanner is added as default when nothing was detected
StoreScanners(reg, list) ==
  [i \in RegistryIds |->
     IF \E k \in 1..Len(list) : list[k] = i THEN DetectedRecord(list, i)
     ELSE IF list = <<>> /\ i = MockScannerId THEN "default"
     ELSE reg[i]]

\* getScanners() up to the point where refreshScanners() awaits the detection
ScannerGetScanners ==
  /\ scannerRefreshes < MaxRefreshes
  /\ Call("getScanners", "scanner")
  /\ connectedScanners' = EmptyScannerRegistry
  /\ scannerRefreshes' = scannerRefreshes + 1
  /\ UNCHANGED <<defaultScannerId, scannerRegResult, refreshBeforeDefault>>

\* detectWindowsScanners() resolves: the rest of refreshScanners() and of its caller
RefreshScannersEnd(list) ==
  /\ scannerRefreshes > 0
  /\ scannerRefreshes' = scannerRefreshes - 1
  /\ connectedScanners' = StoreScanners(connectedScanners, list)
  /\ scannerRegResult' = [op |-> "getScanners", ok |-> TRUE]
  /\ refreshBeforeDefault' = (refreshBeforeDefault /\ scannerRefreshes' > 0)
  /\ UNCHANGED <<defaultScannerId, callVars>>

\* the forEach of setDefaultScanner
MarkDefault(reg, id) ==
  [i \in RegistryIds |-> IF reg[i] = "none" THEN "none"
                         ELSE IF i = id THEN "default" ELSE "plain"]

\* ScannerService.setDefaultScanner(scannerId)
SetDefaultScanner(id) ==
  /\ Call("setDefaultScanner", id)
  /\ IF id \in RegistryIds /\ connectedScanners[id] # "none"
     THEN /\ defaultScannerId' = id
          /\ connectedScanners' = MarkDefault(connectedScanners, id)
          /\ scannerRegResult' = [op |-> "setDefaultScanner", ok |-> TRUE]
          /\ refreshBeforeDefault' = (scannerRefreshes > 0)
     ELSE /\ scannerRegResult' = [op |-> "setDefaultScanner", ok |-> FALSE]
          /\ UNCHANGED <<connectedScanners, defaultScannerId, refreshBeforeDefault>>
  /\ UNCHANGED scannerRefreshes

ScanRegNext ==
  \/ ScannerGetScanners
  \/ \E list \in ScannerListings : RefreshScannersEnd(list)
  \/ \E id \in SetDefaultArgs : SetDefaultScanner(id)

(***************************************************************************)
(* DeviceService: the event channel (addEventListener, emit)               *)
(***************************************************************************)
VARIABLES
  eventListeners,       \* event name -> the callbacks registered, in order
  emitLog,              \* the callbacks the last emit invoked, in order
  emitThrew             \* TRUE when the last emit threw to its caller

eventVars == <<eventListeners, emitLog, emitThrew>>

EventNames == {"device-connected", "data"}
\* the callbacks a client can register; "bad" throws when it is invoked
Callbacks == {"cb1", "cb2", "bad"}

EventInit ==
  /\ eventListeners = [e \in EventNames |-> <<>>]
  /\ emitLog = <<>>
  /\ emitThrew = FALSE

Throws(cb) == cb = "bad"

\* variant of Caught without the try/catch around callback(data)
CaughtNever(cb) == ~Throws(cb)

\* the try/catch around callback(data): after any callback, throwing or not,
\* the forEach goes on
Caught(cb) == TRUE

\* listeners.forEach(callback => { try { callback(data) } catch { log } })
\* from index i on
RECURSIVE InvokeAll(_, _, _)
InvokeAll(listeners, i, log) ==
  IF i > Len(listeners) THEN [log |-> log, threw |-> FALSE]
  ELSE IF Caught(listeners[i]) THEN InvokeAll(listeners, i + 1, Append(log, listeners[i]))
  ELSE [log |-> Append(log, listeners[i]), threw |-> TRUE]

\* DeviceService.addEventListener(event, callback)
AddEventListener(e, cb) ==
  /\ Len(eventListeners[e]) < MaxSubscribers
  /\ Call("addEventListener", e)
  /\ eventListeners' = [eventListeners EXCEPT ![e] = Append(@, cb)]
  /\ emitLog' = <<>>
  /\ emitThrew' = FALSE

\* DeviceService.emit(event, data)
Emit(e) ==
  /\ Call("emit", e)
  /\ LET r == InvokeAll(eventListeners[e], 1, <<>>)
     IN /\ emitLog' = r.log
        /\ emitThrew' = r.threw
  /\ UNCHANGED eventListeners

\* this.eventListeners.clear() of cleanup()
ClearEventListeners ==
  /\ Call("cleanup", "events")
  /\ eventListeners' = [e \in EventNames |-> <<>>]
  /\ emitLog' = <<>>
  /\ emitThrew' = FALSE

EventNext ==
  \/ \E e \in EventNames, cb \in Callbacks : AddEventListener(e, cb)
  \/ \E e \in EventNames : Emit(e)
  \/ ClearEventListeners

(***************************************************************************)
(* ScannerService.createPdfFromImages: image-to-document assembly.         *)
(* Lengths are kept exact: page sizes in hundredths of a point, and the    *)
(* comparison |px / dpi * 72 - size| is scaled by 100 * dpi.               *)
(***************************************************************************)
VARIABLES
  pdfInput,             \* imagePaths: the images of the call, in order
  pdfPages,             \* the pages of the document written, in order
  pdfStatus             \* "none", "written" or "error" (the call threw)

pdfVars == <<pdfInput, pdfPages, pdfStatus>>

\* PAPER_SIZES in declaration order, in hundredths of a point
PAPER_SIZES ==
  << [name |-> "A4",     width |-> 59528, height |-> 84189],
     [name |-> "A3",     width |-> 84189, height |-> 119055],
     [name |-> "Letter", width |-> 61200, height |-> 79200],
     [name |-> "Legal",  width |-> 61200, height |-> 100800],
     [name |-> "A5",     width |-> 41953, height |-> 59528] >>

DefaultDpi == 200

\* an image file: missing, empty, unreadable by sharp, without dimensions in
\* its metadata, or readable with pixel width, height and density (0 = none)
Img(kind, w, h, density) == [kind |-> kind, width |-> w, height |-> h, density |-> density]
Images ==
  { Img("missing", 0, 0, 0), Img("empty", 0, 0, 0), Img("corrupt", 0, 0, 0),
    Img("nodims", 0, 0, 72),
    Img("ok", 1000, 1400, 200), Img("ok", 1654, 2339, 200), Img("ok", 1700, 2500, 200),
    Img("ok", 2500, 1700, 200), Img("ok", 1700, 2200, 0),   Img("ok", 500, 500, 72),
    Img("ok", 842, 595, 72),
    Img("ok", 83906, 161717, 14400), Img("ok", 161717, 83906, 14400),
    Img("ok", 83906, 157975, 14400) }

Abs(x) == IF x < 0 THEN -x ELSE x

\* const dpi = metadata.density || 200
Dpi(img) == IF img.density = 0 THEN DefaultDpi ELSE img.density

\* an image that reaches imageDataList
\* variant of Usable that only tests that the file exists
UsableIfExists(img) == img.kind # "missing"

Usable(img) == img.kind = "ok" /\ img.width # 0 /\ img.height # 0

\* Math.min(diff1, diff2) for one catalog entry, scaled by 100 * dpi
SizeDiff(img, size) ==
  LET d == Dpi(img)
      w == img.width * 7200
      h == img.height * 7200
      diff1 == Abs(w - size.width * d) + Abs(h - size.height * d)
      diff2 == Abs(w - size.height * d) + Abs(h - size.width * d)
  IN IF diff1 < diff2 THEN diff1 ELSE diff2

\* if (diff < bestDiff): bestDiff starts at Infinity (-1 here)
\* variant of Closer that lets a later entry win a tie
CloserOrEqual(diff, bestDiff) == bestDiff = -1 \/ diff <= bestDiff

Closer(diff, bestDiff) == bestDiff = -1 \/ diff < bestDiff

\* the loop over Object.entries(PAPER_SIZES) from entry i on
RECURSIVE BestMatch(_, _, _, _)
BestMatch(img, i, bestMatch, bestDiff) ==
  IF i > Len(PAPER_SIZES) THEN bestMatch
  ELSE LET diff == SizeDiff(img, PAPER_SIZES[i])
       IN IF Closer(diff, bestDiff)
          THEN BestMatch(img, i + 1, i, diff)
          ELSE BestMatch(img, i + 1, bestMatch, bestDiff)

\* const isLandscape = widthInPoints > heightInPoints
IsLandscape(img) == img.width * 7200 > img.height * 7200

\* the entry of imageDataList for one image
PageFor(img) ==
  LET targetSize == PAPER_SIZES[BestMatch(img, 1, 1, -1)]
  IN IF IsLandscape(img)
     THEN [img |-> img, width |-> targetSize.height, height |-> targetSize.width,
           paperSize |-> targetSize.name]
     ELSE [img |-> img, width |-> targetSize.width, height |-> targetSize.height,
           paperSize |-> targetSize.name]

\* imageDataList: one entry per usable image, in input order
RECURSIVE ImageDataList(_)
ImageDataList(paths) ==
  IF paths = <<>> THEN <<>>
  ELSE IF Usable(Head(paths)) THEN <<PageFor(Head(paths))>> \o ImageDataList(Tail(paths))
  ELSE ImageDataList(Tail(paths))

RECURSIVE SeqsUpTo(_, _)
SeqsUpTo(S, n) ==
  IF n = 0 THEN {<<>>}
  ELSE LET shorter == SeqsUpTo(S, n - 1)
       IN shorter \cup {Append(s, x) : s \in {t \in shorter : Len(t) = n - 1}, x \in S}

PdfInit ==
  /\ pdfInput = <<>>
  /\ pdfPages = <<>>
  /\ pdfStatus = "none"

\* the call to check: any list of at most MaxImages images
PdfInputInit ==
  /\ pdfInput \in SeqsUpTo(Images, MaxImages)
  /\ pdfPages = <<>>
  /\ pdfStatus = "none"

\* createPdfFromImages(imagePaths, outputPath); the write stream may fail
CreatePdfFromImages(streamOk) ==
  /\ pdfStatus = "none"
  /\ Call("createPdfFromImages", "scanner")
  /\ LET list == ImageDataList(pdfInput)
     IN IF list = <<>>
        THEN /\ pdfPages' = <<>>
             /\ pdfStatus' = "error"
        ELSE IF streamOk
        THEN /\ pdfPages' = list
             /\ pdfStatus' = "written"
        ELSE /\ pdfPages' = <<>>
             /\ pdfStatus' = "error"
  /\ UNCHANGED pdfInput

PdfNext == \E streamOk \in BOOLEAN : CreatePdfFromImages(streamOk)

(***************************************************************************)
(* Specifications: one per service.                                        *)
(***************************************************************************)
vars == <<callVars, usbVars, serialVars, cameraVars, printerVars, scannerVars, scanRegVars, eventVars, pdfVars>>

Init ==
  /\ tick = FALSE
  /\ lastCall = NoCall
  /\ UsbInit
  /\ SerialInit
  /\ CameraInit
  /\ PrinterInit
  /\ ScannerInit
  /\ ScanRegInit
  /\ EventInit
  /\ PdfInit

\* the serial library is present in the runs of the other services
InitLib == Init /\ serialLib = TRUE

\* the image assembly is checked on every input list within the bound
InitPdf ==
  /\ tick = FALSE
  /\ lastCall = NoCall
  /\ UsbInit
  /\ SerialInit
  /\ serialLib = TRUE
  /\ CameraInit
  /\ PrinterInit
  /\ ScannerInit
  /\ ScanRegInit
  /\ EventInit
  /\ PdfInputInit

UsbStep == UsbNext /\ UNCHANGED <<serialVars, cameraVars, printerVars, scannerVars, scanRegVars, eventVars, pdfVars>>
SerialStep == SerialNext /\ UNCHANGED <<usbVars, cameraVars, printerVars, scannerVars, scanRegVars, eventVars, pdfVars>>
SerialIoStep == SerialIoNext /\ UNCHANGED <<usbVars, cameraVars, printerVars, scannerVars, scanRegVars, eventVars, pdfVars>>
CameraStep == CameraNext /\ UNCHANGED <<usbVars, serialVars, printerVars, scannerVars, scanRegVars, eventVars, pdfVars>>
PrinterStep == PrinterNext /\ UNCHANGED <<usbVars, serialVars, cameraVars, scannerVars, scanRegVars, eventVars, pdfVars>>
ScannerStep == ScannerNext /\ UNCHANGED <<usbVars, serialVars, cameraVars, printerVars, scanRegVars, eventVars, pdfVars>>
ScanRegStep == ScanRegNext /\ UNCHANGED <<usbVars, serialVars, cameraVars, printerVars, scannerVars, eventVars, pdfVars>>
EventStep == EventNext /\ UNCHANGED <<usbVars, serialVars, cameraVars, printerVars, scannerVars, scanRegVars, pdfVars>>
PdfStep == PdfNext /\ UNCHANGED <<usbVars, serialVars, cameraVars, printerVars, scannerVars, scanRegVars, eventVars>>

SpecUSB == InitLib /\ [][UsbStep]_vars
SpecSerial == Init /\ [][SerialStep]_vars
SpecSerialIo == InitLib /\ [][SerialIoStep]_vars
SpecCamera == InitLib /\ [][CameraStep]_vars
SpecPrinter == InitLib /\ [][PrinterStep]_vars
SpecScanner == InitLib /\ [][ScannerStep]_vars
SpecScanReg == InitLib /\ [][ScanRegStep]_vars
SpecEvents == InitLib /\ [][EventStep]_vars
SpecPdf == InitPdf /\ [][PdfStep]_vars

(***************************************************************************)
(* Properties                                                              *)
(***************************************************************************)

\* a step that runs a USB discovery pass
UsbPassStep ==
  /\ tick' # tick
  /\ \/ lastCall'.op \in {"getAvailableDevices", "timerTick"}
     \/ lastCall'.op = "initialize" /\ ~usbIsInitialized

\* C1: every discovery pass emits exactly one 'device-connected' for each id
\* found now and not found by the pass before, exactly one 'device-disconnected'
\* for each id found before and not now, which it marks 'disconnected', and no
\* event for any other id (snapshots [A,B] then [B,C]: one disconnect for A,
\* one connect for C, nothing for B).
C1_HotPlugDiff ==
  [][UsbPassStep =>
       \A i \in UsbIds :
         /\ usbConnEmits'[i] = (IF i \in usbFound' \ usbFound THEN 1 ELSE 0)
         /\ usbDiscEmits'[i] = (IF i \in usbFound \ usbFound' THEN 1 ELSE 0)
         /\ (i \in usbFound \ usbFound' => devices'[i] = "disconnected")]_vars

\* C2: a discovery pass that finds the same ids as the pass before emits no
\* 'device-connected' and no 'device-disconnected' event, also when the registry
\* holds records marked 'disconnected'.
C2_DiffIdempotent ==
  [][(UsbPassStep /\ usbFound' = usbFound) =>
       (usbConnEmits' = NoUsbEmits /\ usbDiscEmits' = NoUsbEmits)]_vars

\* C3: openPort(path) on a path that has an open connection returns false with
\* AlreadyOpen, emits 'port-error', creates no connection and leaves the
\* connection map and the registry as they were.
C3_AlreadyOpen ==
  [][(/\ tick' # tick
      /\ lastCall'.op = "openPort"
      /\ openConnections[lastCall'.arg] # 0) =>
       (/\ serialResult' = SerialFail("openPort", "AlreadyOpen")
        /\ serialEmits' = {"port-error"}
        /\ serialConns' = serialConns
        /\ openConnections' = openConnections
        /\ ports' = ports)]_vars

C3_Witness ==
  /\ lastCall.op = "openPort"
  /\ serialResult = SerialFail("openPort", "AlreadyOpen")
  /\ openConnections[lastCall.arg] # 0
  /\ ports[lastCall.arg] = "busy"

\* a step that calls startVideoStream on a camera that has an active stream
BusyStartStep ==
  /\ tick' # tick
  /\ lastCall'.op = "startVideoStream"
  /\ activeCaptures[lastCall'.arg]

C5_NoDefaultPrinter ==
  [][(/\ tick' # tick
      /\ lastCall'.op = "print"
      /\ lastCall'.arg = "unset"
      /\ \A n \in PrinterNames : printLookup'[n] # "default") =>
       (/\ printerResult' = PrinterFail("print", "NoDefaultPrinter")
        /\ "print-error" \in printerEmits'
        /\ printBackend' = "none")]_vars

C5_Witness ==
  /\ lastCall = [op |-> "print", arg |-> "unset"]
  /\ printerResult = PrinterFail("print", "NoDefaultPrinter")
  /\ \E n \in PrinterNames : printLookup[n] = "plain"
  /\ printBackend = "none"

PaperCandidates ==
  {[index |-> i, width |-> PAPER_SIZES[i].width, height |-> PAPER_SIZES[i].height] :
     i \in 1..Len(PAPER_SIZES)}
  \cup
  {[index |-> i, width |-> PAPER_SIZES[i].height, height |-> PAPER_SIZES[i].width] :
     i \in 1..Len(PAPER_SIZES)}

\* |w - W| + |h - H| with w, h = pixels / dpi * 72, scaled by 100 * dpi
PaperDistance(img, W, H) ==
  LET dpi == IF img.density = 0 THEN 200 ELSE img.density
  IN Abs(img.width * 7200 - W * dpi) + Abs(img.height * 7200 - H * dpi)

IsClosest(img, c) ==
  \A o \in PaperCandidates :
    PaperDistance(img, c.width, c.height) <= PaperDistance(img, o.width, o.height)

\* C7: every page of the written document has the dimensions of a candidate
\* (catalog entry and orientation) at minimal distance from the image, taken
\* from the earliest-declared entry that reaches the minimum; 1000x1400 px at
\* 200 DPI is 360x504 pt and gives the A5 page.
C7_PaperSizeMatch ==
  pdfStatus = "written" =>
    \A k \in 1..Len(pdfPages) :
      LET pg == pdfPages[k]
      IN /\ \E c \in PaperCandidates :
              /\ c.width = pg.width
              /\ c.height = pg.height
              /\ PAPER_SIZES[c.index].name = pg.paperSize
              /\ IsClosest(pg.img, c)
              /\ \A o \in PaperCandidates : IsClosest(pg.img, o) => c.index <= o.index
         /\ pg.img = Img("ok", 1000, 1400, 200) =>
              /\ pg.img.width * 7200 = 36000 * 200
              /\ pg.img.height * 7200 = 50400 * 200
              /\ pg.paperSize = "A5"
              /\ pg.width = 41953
              /\ pg.height = 59528

C7_Witness ==
  /\ pdfStatus = "written"
  /\ Len(pdfPages) = 2
  /\ pdfPages[1].img = Img("ok", 1000, 1400, 200)
  /\ pdfPages[2].img = Img("ok", 161717, 83906, 14400)
  /\ pdfPages[2].paperSize = "A4"
  /\ pdfPages[2].width = 84189

\* C8 as stated: the written document has as many pages as image paths were given.
C8_PageCountEqualsInputs ==
  pdfStatus = "written" => Len(pdfPages) = Len(pdfInput)

\* the input images that exist, are not empty and are decoded with dimensions
ReadableInputs == {k \in 1..Len(pdfInput) : pdfInput[k].kind = "ok"}

\* C8 amended: the written document has one page for each input image that
\* exists, is not empty and is decoded with its dimensions, the other images
\* being skipped; when there is no such image no document is written.
C8_PageCountEqualsReadable ==
  /\ pdfStatus = "written" =>
       (/\ Len(pdfPages) = Cardinality(ReadableInputs)
        /\ \A k \in 1..Len(pdfPages) : \E j \in ReadableInputs : pdfPages[k].img = pdfInput[j])
  /\ (pdfStatus # "none" /\ ReadableInputs = {}) =>
       (pdfStatus = "error" /\ pdfPages = <<>>)

C8_Witness ==
  /\ pdfStatus = "written"
  /\ Len(pdfPages) = 1
  /\ Len(pdfInput) = 2
  /\ pdfInput[1].kind = "empty"

\* C9: once cleanup() has returned, and until another operation is invoked, the
\* registry and the open-connection map of the service are empty, whatever was
\* in progress when cleanup() was called.
C9_TeardownEmpty ==
  serialCleaned =>
    (/\ ports = EmptyPortRegistry
     /\ openConnections = NoConnections)

\* C10: an operation other than initialize and cleanup invoked on a service that
\* is not initialized fails with NotInitialized and changes no state.
C10_LifecycleGating ==
  [][(/\ tick' # tick
      /\ lastCall'.op \notin {"initialize", "cleanup", "timerTick"}
      /\ ~usbIsInitialized) =>
       (/\ usbResult'.status = "NotInitialized"
        /\ devices' = devices
        /\ usbListeners' = usbListeners
        /\ monitoringInterval' = monitoringInterval)]_vars

\* C11: the discovery passes of a service are serialized: at most one pass of
\* the serial service is between its first and its last step at any time,
\* whatever the interleaving of initialize() and getPorts() calls.
C11_PassesSerialized ==
  serialScans["initialize"] + serialScans["getPorts"] <= 1

\* C12: when the 120 s scan timer expires while the scanning utility is still
\* running, the utility is killed and the request fails with Timeout, and the
\* close event that follows leaves that result as it is.
C12_ScanTimeout ==
  /\ [](scanSettledBy = "timer" =>
          (/\ scanResult = ScanFailure("Timeout")
           /\ scanPhase = "Failed"
           /\ naps2 \in {"killed", "exited"}))
  /\ [][(scanTimer = "armed" /\ scanTimer' = "fired" /\ naps2 = "running") =>
          (/\ naps2' = "killed"
           /\ scanSettledBy' = "timer"
           /\ scanResult' = ScanFailure("Timeout"))]_vars

C12_Witness ==
  /\ scanSettledBy = "timer"
  /\ naps2 = "exited"
  /\ scanExit.code = 0
  /\ scanExit.fileExists
  /\ scanResult = ScanFailure("Timeout")

\* the exit that the close handler of the request saw passed the test
\* code === 0 && fs.existsSync(outputPath)
ExitedWithFile == scanExit.code = 0 /\ scanExit.fileExists

\* the failure reason the stderr markers give
StderrReason ==
  IF scanExit.stderr = "NoDevice" THEN {"NotConnected"}
  ELSE IF scanExit.stderr = "NoPages" THEN {"NoPages"}
  ELSE {"ExternalToolError", "ScanError"}

\* C13 as stated: a request that the utility's close event settles succeeds if
\* and only if the exit code is zero and the output file exists; otherwise the
\* reason is NotConnected for the 'no scanning device' marker on stderr, else
\* NoPages for the 'no pages' marker, else a generic tool error.
C13_Classification ==
  scanSettledBy = "close" =>
    /\ scanResult.success <=> ExitedWithFile
    /\ ~scanResult.success => scanResult.reason \in StderrReason

\* C13 amended: the request succeeds if and only if the exit code is zero, the
\* output file exists and the file is read and deleted without an error; with
\* exit code zero and the file present but not read or not deleted the failure
\* is a read error whatever stderr holds; in every other case the reason is
\* NotConnected for the 'no scanning device' marker, else NoPages for the 'no
\* pages' marker, else a generic error (stderr, else stdout naming an error,
\* else a fixed message).
C13_ClassificationAmended ==
  scanSettledBy = "close" =>
    /\ scanResult.success <=> (ExitedWithFile /\ scanExit.readOk /\ scanExit.unlinkOk)
    /\ (ExitedWithFile /\ ~(scanExit.readOk /\ scanExit.unlinkOk)) =>
         scanResult.reason = "ReadError"
    /\ ~ExitedWithFile =>
         /\ scanResult.reason \in StderrReason
         /\ scanResult.reason = "ScanError" <=>
              (scanExit.stderr = "empty" /\ ~scanExit.stdoutError)

C13_Witness ==
  /\ scanSettledBy = "close"
  /\ ExitedWithFile
  /\ ~scanExit.readOk
  /\ scanExit.stderr = "NoPages"
  /\ scanResult = ScanFailure("ReadError")

\* C14: once the utility has exited with code zero and the output file exists,
\* the close handler deletes the file on every path, so when the deletion
\* itself does not fail no temporary file is left, also when reading failed.
C14_TempFileDeleted ==
  (naps2 = "exited" /\ ExitedWithFile /\ scanExit.unlinkOk) => ~scanFile

\* the phase changes a scan request may make
PhaseOrder ==
  ({"Idle", "Done", "Failed"} \X {"ConnectivityCheck", "Failed"})
  \cup ({"ConnectivityCheck"} \X {"Scanning", "Failed"})
  \cup ({"Scanning"} \X {"Done", "Failed"})

\* C15: the phases of a scan request follow ConnectivityCheck, Scanning, Done
\* (the file is read and encoded in the step that ends Scanning) or end in
\* Failed; only a new request leaves Done or Failed; the utility is spawned
\* only by the step in which the connectivity check reports CONNECTED, and at
\* most once per request; Done is reached only from an exit with code zero and
\* the output file present.
C15_PhaseOrder ==
  /\ [](scanSpawns <= 1)
  /\ [](scanPhase = "Done" =>
          (scanResult.success /\ ExitedWithFile /\ scanSettledBy = "close" /\ scanSpawns = 1))
  /\ [](scanPhase = "Scanning" => (scanSpawns = 1 /\ checkSettledBy = "close"))
  /\ [][scanPhase' # scanPhase =>
          (/\ <<scanPhase, scanPhase'>> \in PhaseOrder
           /\ scanPhase \in {"Done", "Failed"} => tick' # tick)]_vars
  /\ [][scanSpawns' > scanSpawns =>
          (/\ scanPhase = "ConnectivityCheck"
           /\ scanPhase' = "Scanning"
           /\ probeOutput = "CONNECTED"
           /\ checkSettledBy = "none"
           /\ checkSettledBy' = "close")]_vars

C15_Witness ==
  /\ scanPhase = "Done"
  /\ scanSpawns = 1
  /\ scanResult = ScanSuccess
  /\ probeOutput = "CONNECTED"
  /\ ~scanFile

DefaultScanners == {i \in RegistryIds : connectedScanners[i] = "default"}

\* a step that calls setDefaultScanner
SetDefaultStep == tick' # tick /\ lastCall'.op = "setDefaultScanner"

\* C16: at most one record of the scanner registry is marked default in every
\* state; setDefaultScanner(id) with id in the registry leaves id as the only
\* default; with id not in the registry it returns false and changes no
\* record and no configuration value.
C16_DefaultUnique ==
  /\ [](Cardinality(DefaultScanners) <= 1)
  /\ [][SetDefaultStep =>
          IF lastCall'.arg \in RegistryIds /\ connectedScanners[lastCall'.arg] # "none"
          THEN /\ {i \in RegistryIds : connectedScanners'[i] = "default"} = {lastCall'.arg}
               /\ scannerRegResult'.ok
          ELSE /\ ~scannerRegResult'.ok
               /\ connectedScanners' = connectedScanners
               /\ defaultScannerId' = defaultScannerId]_vars

\* C17: initialize() on a service that is already initialized runs no discovery
\* pass, emits no event, starts no monitoring timer and leaves the registry and
\* the initialized flag as they are.
C17_InitializeIdempotent ==
  [][(tick' # tick /\ lastCall'.op = "initialize" /\ usbIsInitialized) =>
       (/\ devices' = devices
        /\ usbFound' = usbFound
        /\ usbConnEmits' = NoUsbEmits
        /\ usbDiscEmits' = NoUsbEmits
        /\ usbLiveTimers' = usbLiveTimers
        /\ monitoringInterval' = monitoringInterval
        /\ usbIsInitialized')]_vars

\* initialize() was called after stopMonitoring() on the initialized service:
\* it did not start the timer again
C17_Witness ==
  /\ lastCall.op = "initialize"
  /\ usbIsInitialized
  /\ ~monitoringInterval
  /\ usbLiveTimers = 0
  /\ \E i \in UsbIds : devices[i] = "connected"

\* C18: initialize() on a service that is not initialized, when every
\* enumeration source of the service fails, is rejected with the error and
\* leaves the service uninitialized.
C18_InitializeFailsLoudly ==
  [][(/\ tick' # tick
      /\ lastCall'.op = "initialize"
      /\ ~printerIsInitialized
      /\ printerSource' = "none") =>
       (~printerResult'.ok /\ ~printerIsInitialized')]_vars

\* C19: emit(event, data) invokes every callback registered for the event, in
\* registration order, also after a callback that throws; it does not throw to
\* its caller; for an event without callbacks it invokes nothing; it leaves
\* the registrations as they are.
C19_EmitIsolation ==
  [][(tick' # tick /\ lastCall'.op = "emit") =>
       (/\ emitLog' = eventListeners[lastCall'.arg]
        /\ ~emitThrew'
        /\ eventListeners' = eventListeners)]_vars

C19_Witness ==
  /\ lastCall.op = "emit"
  /\ Len(emitLog) = 3
  /\ emitLog[1] = "bad"
  /\ emitLog[3] = "cb1"
  /\ ~emitThrew
  /\ eventListeners[CHOOSE e \in EventNames : e # lastCall.arg] = <<>>

\* C20: the list getCameras() returns is never empty, whatever the two
\* listings give (devices, nothing or a failure): it holds the cameras the
\* listings stored when there is one, and otherwise the default camera '0'
\* alone; the default camera entry is in the list exactly when the listings
\* stored no camera.
C20_CamerasNeverEmpty ==
  [][(tick' # tick /\ lastCall'.op = "getCameras") =>
       (/\ {i \in CamIds : cameras'[i] # "none"} # {}
        /\ cameraDefaultEntry' <=> (cameraListed' = {})
        /\ {i \in CamIds : cameras'[i] # "none"} =
             (IF cameraListed' = {} THEN {"0"} ELSE cameraListed'))]_vars

C20_Witness ==
  /\ lastCall.op = "getCameras"
  /\ cameraDefaultEntry
  /\ cameraListed = {}
  /\ cameras["0"] = "available"
  /\ cameras["1"] = "none"
  /\ activeCaptures["1"]

\* C21: after capturePhoto in base64 mode (saveToFile not requested) has
\* returned or thrown, the file the capture wrote no longer exists, unless the
\* deletion itself failed; this includes the call that fails while reading or
\* encoding the image.
C21_TempFileRemoved ==
  (/\ lastCall.op = "capturePhoto"
   /\ ~cameraCapture.saveToFile
   /\ cameraCapture.stage # "unlinkFailed") => ~cameraTempFile

\* a step that calls stopVideoStream
StopStreamStep == tick' # tick /\ lastCall'.op = "stopVideoStream"

\* C22: stopVideoStream(id) for a camera with an active stream removes the
\* stream entry of id and leaves the camera's status 'available', also when
\* stopping the stream object fails; for a camera without an active stream it
\* changes nothing and emits no event.
C22_StopReleases ==
  [][StopStreamStep =>
       IF activeCaptures[lastCall'.arg]
       THEN /\ ~activeCaptures'[lastCall'.arg]
            /\ cameras'[lastCall'.arg] = "available"
       ELSE /\ cameras' = cameras
            /\ activeCaptures' = activeCaptures
            /\ cameraStreams' = cameraStreams
            /\ cameraEmits' = {}]_vars

\* C23: when the WMI listing and the usb library report a device with the same
\* vendor and product in one discovery pass, the pass stores one record for it,
\* the one of the WMI listing, which runs first; the library only adds devices
\* whose vendor and product no stored record has.
C23_MergePrecedence ==
  [][UsbPassStep =>
       \A i, j \in usbFound' :
         (i # j /\ UsbIdentity(i) = UsbIdentity(j)) =>
           UsbIdentity(i) = <<"unknown", "unknown">>]_vars

UsbFilterStep ==
  /\ tick' # tick
  /\ lastCall'.op \in {"getDevicesByClass", "getDevicesByVendor", "getDevicesByProduct"}

FilterOf(ids, op, arg) ==
  IF op = "getDevicesByClass" THEN ByClass(ids, arg)
  ELSE IF op = "getDevicesByVendor" THEN ByVendor(ids, arg)
  ELSE ByProduct(ids, arg)

\* C24: getDevicesByClass, getDevicesByVendor and getDevicesByProduct return the
\* connected records that satisfy the filter, leave the ids and statuses of the
\* USB registry as they were and emit no event.
C24_PureFilters ==
  [][UsbFilterStep =>
       /\ devices' = devices
       /\ usbConnEmits' = NoUsbEmits
       /\ usbDiscEmits' = NoUsbEmits
       /\ usbResult'.ids = FilterOf(Connected(devices), lastCall'.op, lastCall'.arg)]_vars

UsbTimerStep == tick' # tick /\ lastCall'.op = "timerTick"

UsbStopStep ==
  /\ tick' # tick
  /\ lastCall'.op \in {"cleanup", "stopMonitoring"}
  /\ lastCall'.arg = "usb"

\* C25: a tick of the monitoring timer runs a discovery pass whatever the last
\* explicit call was, and only while the service is initialized and the timer
\* handle is set; when cleanup() or stopMonitoring() has returned no interval
\* timer is left alive, so no timer-triggered pass runs until a new initialize.
C25_MonitoringLoop ==
  /\ [](usbLiveTimers = IF monitoringInterval THEN 1 ELSE 0)
  /\ [][UsbTimerStep =>
          /\ usbIsInitialized /\ monitoringInterval
          /\ \A i \in usbFound' : devices'[i] # "none"]_vars
  /\ [][UsbStopStep => usbLiveTimers' = 0 /\ ~monitoringInterval']_vars

\* C26: when the shell listing and the library listing of one discovery pass
\* both report a port path, the record the registry stores for that path is the
\* one built from the library listing.
C26_LibraryRecordWins ==
  \A p \in Paths : p \notin libDiscarded

\* openPort(p) is invoked
OpenPortCallStep(p) == tick' # tick /\ lastCall' = [op |-> "openPort", arg |-> p]

\* the pending openPort of connection c returns true
OpenPortReturnsTrue(c) ==
  /\ serialConns[c].state = "opening"
  /\ serialConns'[c].state = "open"

\* C27: openPort(path) for a path the registry does not hold, or holds with a
\* status other than 'available', fails, creates and registers no connection
\* and changes no port status; when openPort returns true, the path has an
\* entry in the open-connection map and its registry status is 'busy'.
C27_OpenPortContract ==
  /\ [][\A p \in Paths :
          (OpenPortCallStep(p) /\ ports[p] # "available") =>
            /\ ~serialResult'.ok /\ serialResult'.op = "openPort"
            /\ serialConns' = serialConns
            /\ openConnections' = openConnections
            /\ ports' = ports]_vars
  /\ [][\A c \in ConnIds :
          OpenPortReturnsTrue(c) =>
            /\ openConnections'[serialConns[c].path] = c
            /\ ports'[serialConns[c].path] = "busy"]_vars

\* closePort(p) is invoked
ClosePortCallStep(p) == tick' # tick /\ lastCall' = [op |-> "closePort", arg |-> p]

\* C28: closePort(path) on a path with no open connection returns success,
\* changes no registry status and no connection entry and emits no event; a
\* closePort(path) that returned success leaves no connection for the path, so
\* a second closePort(path) right after it changes nothing.
C28_ClosePortIdempotent ==
  /\ [][\A p \in Paths :
          (ClosePortCallStep(p) /\ openConnections[p] = 0) =>
            /\ serialResult' = SerialOk("closePort")
            /\ serialEmits' = {}
            /\ UNCHANGED <<ports, openConnections, serialConns>>]_vars
  /\ [][\A p \in Paths :
          (ClosePortCallStep(p) /\ serialResult'.ok) => openConnections'[p] = 0]_vars
  /\ [][\A p \in Paths :
          ( /\ ClosePortCallStep(p)
            /\ lastCall = [op |-> "closePort", arg |-> p]
            /\ serialResult = SerialOk("closePort") ) =>
            /\ serialResult' = serialResult
            /\ serialEmits' = {}
            /\ UNCHANGED <<ports, openConnections, serialConns>>]_vars

\* a closePort that found no connection for a registered port has returned
C28_Witness ==
  /\ lastCall.op = "closePort"
  /\ serialResult = SerialOk("closePort")
  /\ serialEmits = {}
  /\ \E p \in Paths : /\ lastCall.arg = p
                      /\ openConnections[p] = 0
                      /\ ports[p] = "available"

\* connection c emits a chunk while a read() is waiting on it
ChunkDuringRead(c) ==
  /\ pendingRead[c].state = "pending"
  /\ UNCHANGED callVars
  /\ \/ serialResult' = SerialOk("read") /\ pendingRead'[c].state = "none"
     \/ pendingRead'[c].chunkSeen /\ ~pendingRead[c].chunkSeen

\* the read() waiting on connection c settles
ReadSettles(c) == pendingRead[c].state = "pending" /\ pendingRead'[c].state = "none"

\* C29: a read on an open port resolves with the first chunk that arrives
\* before its timeout and fails with Timeout only when none arrived; once it
\* has settled its handler is no listener of the connection and later chunks
\* do not change what it returned; read on a port that is not open fails with
\* NotOpen.
C29_ReadSingleShot ==
  /\ [][\A c \in ConnIds :
          ChunkDuringRead(c) =>
            /\ pendingRead'[c].state = "none"
            /\ serialResult' = SerialOk("read")
            /\ readData' \in Chunks]_vars
  /\ [][\A c \in ConnIds :
          (ReadSettles(c) /\ serialResult' = SerialFail("read", "Timeout")) =>
            ~pendingRead[c].chunkSeen]_vars
  /\ [](\A c \in ConnIds : pendingRead[c].state = "none" => ~pendingRead[c].attached)
  /\ [][(\A c \in ConnIds : ~ReadSettles(c)) => readData' = readData]_vars
  /\ [][\A p \in Paths :
          ( /\ tick' # tick
            /\ lastCall' = [op |-> "read", arg |-> p]
            /\ openConnections[p] = 0 ) =>
            serialResult' = SerialFail("read", "NotOpen")]_vars

\* removeDataListener(p) is invoked
RemoveListenerStep(p) ==
  tick' # tick /\ lastCall' = [op |-> "removeDataListener", arg |-> p]

\* C30: removeDataListener(path) while a read(path) is pending leaves the
\* handler of the pending read attached, so the read still resolves with the
\* next chunk; a read that resolves or times out leaves the callbacks
\* registered with onData attached.
C30_ReadAndCallbackIndependent ==
  /\ [][\A p \in Paths :
          (RemoveListenerStep(p) /\ openConnections[p] # 0) =>
            pendingRead'[openConnections[p]] = pendingRead[openConnections[p]]]_vars
  /\ [][\A c \in ConnIds : ReadSettles(c) => dataCallbacks' = dataCallbacks]_vars

PrintStep == tick' # tick /\ lastCall'.op = "print"

\* the printer print() settles on: options.printer, or the default it found
PrintTargets ==
  IF lastCall'.arg = "unset" THEN DefaultPrinters(printLookup') ELSE {lastCall'.arg}

\* C31: print() always returns a boolean: when its target printer is not in
\* the registry after the availability refresh, or the type is none of text,
\* html and pdf, it returns false, emits 'print-error' and invokes no printing
\* backend; when it returns false after invoking a backend it emits
\* 'print-error' as well, and it returns true only after a backend succeeded.
C31_PrintReturnsFalse ==
  [][PrintStep =>
       /\ printerResult'.op = "print"
       /\ ( \/ \A t \in PrintTargets : printers'[t] = "none"
            \/ printType' \notin {"text", "html", "pdf"} ) =>
            /\ ~printerResult'.ok
            /\ printerEmits' = {"print-error"}
            /\ printBackend' = "none"
       /\ ~printerResult'.ok => printerEmits' = {"print-error"}
       /\ printerResult'.ok => printBackend' = printType' /\ printerEmits' = {"print-success"}]_vars

\* print() of an unsupported type to a listed printer was refused
C31_Witness ==
  /\ lastCall.op = "print" /\ lastCall.arg \in PrinterNames
  /\ printers[lastCall.arg] # "none"
  /\ printType = "docx"
  /\ printerResult = PrinterFail("print", "UnsupportedType")
  /\ printerEmits = {"print-error"}
  /\ printBackend = "none"

GetPrintersStep == tick' # tick /\ lastCall'.op = "getPrinters"

\* C32: when the primary listing fails and the secondary one answers,
\* getPrinters() returns the registry filled from the secondary listing; when
\* both listings fail, getPrinters() fails instead of returning a list.
C32_GetPrintersFallback ==
  [][GetPrintersStep =>
       /\ printerSource' = "fallback" => printerResult'.ok
       /\ printerSource' = "none" => ~printerResult'.ok]_vars

\* C33: every path with an entry in the open-connection map has a registry
\* record whose status is 'busy'.
C33_OpenPortsBusy ==
  \A p \in Paths : openConnections[p] # 0 => ports[p] = "busy"

\* C34: every camera id with an active stream has registry status 'busy', and
\* capturePhoto(id) on such an id is rejected.
C34_StreamingCamerasBusy ==
  /\ [](\A id \in CamIds : activeCaptures[id] => cameras[id] = "busy")
  /\ [][\A id \in CamIds :
          ( /\ tick' # tick
            /\ lastCall' = [op |-> "capturePhoto", arg |-> id]
            /\ activeCaptures[id] ) =>
            cameraCapture'.stage = "rejected"]_vars

\* the connections created for path p that are being opened or are open
ConnsOf(p) == {c \in ConnIds : serialConns[c].path = p /\ serialConns[c].state # "unused"}

\* C35: whatever the interleaving of openPort calls for one path, at most one
\* connection is created for the path, and every connection that opened is
\* the entry of its path in the open-connection map.
C35_OneConnectionPerPath ==
  /\ \A p \in Paths : Cardinality(ConnsOf(p)) <= 1
  /\ \A c \in ConnIds :
       serialConns[c].state = "open" => openConnections[serialConns[c].path] = c

\* a step of the current scan request other than the start of a new one
SameRequestStep == UNCHANGED callVars

\* C36: the promise of a connectivity check and that of a scan run are settled
\* once, by the first of the process's close, its error and the timer: the
\* event that settles it fixes the result, and every later event of the
\* request, the timer firing after a normal exit included, leaves what settled
\* it and the result the caller got as they are.
C36_SingleResult ==
  /\ [][(SameRequestStep /\ checkSettledBy # "none") =>
          checkSettledBy' = checkSettledBy]_vars
  /\ [][(SameRequestStep /\ scanSettledBy # "none") =>
          scanSettledBy' = scanSettledBy]_vars
  /\ [][(SameRequestStep /\ scanPhase \in {"Done", "Failed"}) =>
          scanResult' = scanResult /\ scanPhase' = scanPhase]_vars
  /\ [][(SameRequestStep /\ checkSettledBy = "none" /\ checkSettledBy' = "timer") =>
          scanResult' = ScanFailure("Timeout")]_vars
  /\ [][(SameRequestStep /\ scanSettledBy = "none" /\ scanSettledBy' = "timer") =>
          scanResult' = ScanFailure("Timeout")]_vars
  /\ [][(SameRequestStep /\ scanSettledBy = "none" /\ scanSettledBy' = "close") =>
          scanResult' = ScanOutcome(scanExit'.code, scanExit'.fileExists, scanExit'.readOk,
                                    scanExit'.unlinkOk, scanExit'.stderr,
                                    scanExit'.stdoutError)]_vars

\* the 120 s timer fired after the utility had exited and the scan had succeeded
C36_Witness ==
  /\ scanTimer = "fired"
  /\ scanSettledBy = "close"
  /\ naps2 = "exited"
  /\ scanResult = ScanSuccess
  /\ scanPhase = "Done"

\* a step that runs a USB discovery pass, whichever operation started it
AnyUsbPassStep == UsbPassStep \/ UsbFilterStep

\* C37: a discovery pass in which both enumeration sources fail emits no
\* 'device-disconnected' and leaves the status of every registry record as it
\* was.
C37_FailedPassKeepsRegistry ==
  [][(AnyUsbPassStep /\ usbEnumFailed') =>
       /\ usbDiscEmits' = NoUsbEmits
       /\ devices' = devices]_vars


UsbCleanupStep == tick' # tick /\ lastCall'.op = "cleanup" /\ lastCall'.arg = "usb"

\* C38: a USB service never has more than one live monitoring timer, also when
\* initialize() is called again while an earlier initialize() is still awaiting
\* its first discovery pass, and one cleanup() leaves no timer of the service
\* alive.
C38_SingleTimer ==
  /\ [](usbLiveTimers <= 1)
  /\ [][(UsbCleanupStep /\ usbInitPending = 0) => usbLiveTimers' = 0]_vars

RefreshEndStep ==
  /\ scannerRefreshes' = scannerRefreshes - 1
  /\ scannerRegResult'.op = "getScanners"

\* C39: once setDefaultScanner(id) has returned true, every getScanners() called
\* afterwards whose result still contains id returns id as the record with
\* isDefault = true.
C39_DefaultPersists ==
  [][(/\ RefreshEndStep
      /\ ~refreshBeforeDefault
      /\ defaultScannerId # "unset"
      /\ connectedScanners'[defaultScannerId] # "none") =>
       connectedScanners'[defaultScannerId] = "default"]_vars
=============================================================================
